---------------------------- MODULE Spec2Model ----------------------------
(***************************************************************************)
(* A model of the Tuya smart-scale clients of this repository:             *)
(*                                                                         *)
(*   - TuyaSmartScaleAPI (custom_components/tuya_smart_scale/api.py):      *)
(*     request signing, the cached access token and the single-page       *)
(*     history fetch;                                                      *)
(*   - get_all_scale_data_history (utilities/tuya_scale_downloader.py):    *)
(*     the multi-page retrieval loop of the standalone downloader;         *)
(*   - TuyaOpenAPI (custom_components/tuya_scale/tuya_connector/.../       *)
(*     openapi.py): the bundled connector's token handling;                *)
(*   - TuyaSmartScaleAPI.get_scale_users and get_latest_data: user         *)
(*     discovery and the per-user latest record with its analysis report;  *)
(*   - TuyaScaleAPI and update_data (utilities/tuya_scale_downloader.py):  *)
(*     the downloader's client token and its data file;                    *)
(*   - enrich_with_analysis_reports (utilities/tuya_scale_downloader.py):  *)
(*     which records get an analysis report;                               *)
(*   - the four requests that TuyaSmartScaleAPI builds: what is signed     *)
(*     and what is sent;                                                   *)
(*   - two callers inside TuyaSmartScaleAPI.get_access_token at once.      *)
(*                                                                         *)
(* Each part has its own variables and its own specification; the          *)
(* variables of the other parts stay at their initial values.              *)
(*                                                                         *)
(* Strings that the code compares or concatenates character by character   *)
(* (query keys, paths, canonical paths) are sequences of character codes.  *)
(* Opaque strings (tokens, operation names) are TLA+ strings; Python's     *)
(* None is the string None below.                                          *)
(***************************************************************************)
EXTENDS Integers, Sequences, FiniteSets, TLC

None == "<None>"

\* Python truthiness of an optional string: None and "" are falsy.
Truthy(x) == x # None /\ x # ""

(***************************************************************************)
(* The state                                                               *)
(***************************************************************************)

\* _sign_request
VARIABLES
    sr_path,      \* the path of the request being built
    sr_params,    \* its params dict, as items in insertion order
    sr_call       \* the last signing call: its inputs and canonical paths

canonVars == <<sr_path, sr_params, sr_call>>

\* TuyaSmartScaleAPI
VARIABLES
    access_token,   \* self.access_token
    token_expires,  \* self.token_expires
    now,            \* time.time(), in seconds
    last            \* the operation that has just returned to the caller

tokenVars == <<access_token, token_expires, now, last>>

\* get_all_scale_data_history
VARIABLES
    pg,           \* the locals of get_all_scale_data_history and its position
    page_size,    \* its page_size argument
    server,       \* the server of this run
    page_log      \* the page requests of this run and their answers, in order

pageVars == <<pg, page_size, server, page_log>>

\* TuyaOpenAPI
VARIABLES
    session,      \* self.session is not None
    token_info,   \* self.token_info
    clock,        \* time.time() * 1000
    stack,        \* the call stack, the running coroutine last
    returned,     \* the value the last finished coroutine returned
    outcome,      \* how the last call on the connector ended
    sent          \* the last request sent: its kind and what signed it

openVars == <<session, token_info, clock, stack, returned, outcome, sent>>

\* TuyaSmartScaleAPI.get_scale_users
VARIABLES
    su            \* the get_scale_users call that has just returned

usersVars == <<su>>

\* TuyaSmartScaleAPI.get_latest_data
VARIABLES
    ld            \* the get_latest_data call: its position, locals and result

latestVars == <<ld>>

\* TuyaScaleAPI, the client of the standalone downloader
VARIABLES
    cl_token,     \* self.access_token
    cl_lease,     \* when the token held was issued, and its expire_time
    cl_now,       \* time.time(), in seconds
    cl_last       \* the last call on the client: its requests, how it ended

clientVars == <<cl_token, cl_lease, cl_now, cl_last>>

\* update_data of the standalone downloader
VARIABLES
    data_file,    \* the records in DATA_FILE, in file order
    srv_records,  \* the records that the server holds
    srv_order,    \* the order in which the server lists them
    up            \* the update_data run: its position and locals

updateVars == <<data_file, srv_records, srv_order, up>>

\* enrich_with_analysis_reports of the standalone downloader
VARIABLES
    en            \* the call: its position, its records and what it did

enrichVars == <<en>>

\* the requests that TuyaSmartScaleAPI builds
VARIABLES
    built         \* the last request: what was signed and what was sent

builtVars == <<built>>

\* two callers of get_access_token on one TuyaSmartScaleAPI
VARIABLES
    rc            \* the shared token cache and the position of each caller

raceVars == <<rc>>

vars == <<canonVars, tokenVars, pageVars, openVars, usersVars, latestVars, clientVars,
          updateVars, enrichVars, builtVars, raceVars>>

\* the variables that the actions of one part leave alone
notCanon ==
    <<tokenVars, pageVars, openVars, usersVars, latestVars, clientVars, updateVars,
      enrichVars, builtVars, raceVars>>
notToken ==
    <<canonVars, pageVars, openVars, usersVars, latestVars, clientVars, updateVars,
      enrichVars, builtVars, raceVars>>
notPage ==
    <<canonVars, tokenVars, openVars, usersVars, latestVars, clientVars, updateVars,
      enrichVars, builtVars, raceVars>>
notOpen ==
    <<canonVars, tokenVars, pageVars, usersVars, latestVars, clientVars, updateVars,
      enrichVars, builtVars, raceVars>>
\* get_scale_users and get_latest_data work on the token cache of their
\* TuyaSmartScaleAPI
notUsers ==
    <<last, canonVars, pageVars, openVars, latestVars, clientVars, updateVars,
      enrichVars, builtVars, raceVars>>
notLatest ==
    <<last, canonVars, pageVars, openVars, usersVars, clientVars, updateVars,
      enrichVars, builtVars, raceVars>>
notUpdate == <<canonVars, tokenVars, pageVars, openVars, usersVars, latestVars,
      clientVars, enrichVars, builtVars, raceVars>>
notClient ==
    <<canonVars, tokenVars, pageVars, openVars, usersVars, latestVars, updateVars,
      enrichVars, builtVars, raceVars>>

notEnrich ==
    <<canonVars, tokenVars, pageVars, openVars, usersVars, latestVars, clientVars,
      updateVars, builtVars, raceVars>>
notBuilt ==
    <<canonVars, tokenVars, pageVars, openVars, usersVars, latestVars, clientVars,
      updateVars, enrichVars, raceVars>>
notRace ==
    <<canonVars, tokenVars, pageVars, openVars, usersVars, latestVars, clientVars,
      updateVars, enrichVars, builtVars>>

(***************************************************************************)
(* Part 1.  _sign_request: canonical path                                  *)
(***************************************************************************)

\* the character codes of "=", "&" and "?"
ChEq == 61
ChAmp == 38
ChQuery == 63

\* the query keys "a", "b", "ab", the values and the paths "/a", "/b" that the
\* requests of the model use
Keys == { <<97>>, <<98>>, <<97, 98>> }
Values == { 1, 2, 10 }
Paths == { <<47, 97>>, <<47, 98>> }

\* Python's str < str: lexicographic by code point, a proper prefix first.
RECURSIVE StrLess(_, _)
StrLess(s, t) ==
    IF t = << >> THEN FALSE
    ELSE IF s = << >> THEN TRUE
    ELSE IF Head(s) # Head(t) THEN Head(s) < Head(t)
    ELSE StrLess(Tail(s), Tail(t))

\* Python's tuple < tuple on (key, value) items: first the key, then the value.
ItemLess(x, y) ==
    \/ StrLess(x[1], y[1])
    \/ x[1] = y[1] /\ x[2] < y[2]

\* insert item x into the sorted sequence s, after the items not greater than x
RECURSIVE InsertSorted(_, _)
InsertSorted(x, s) ==
    IF s = << >> THEN <<x>>
    ELSE IF ItemLess(x, Head(s)) THEN <<x>> \o s
    ELSE <<Head(s)>> \o InsertSorted(x, Tail(s))

RECURSIVE SortedItemsFrom(_, _)
SortedItemsFrom(items, acc) ==
    IF items = << >> THEN acc
    ELSE SortedItemsFrom(Tail(items), InsertSorted(Head(items), acc))

\* a plausible slip: the items are joined in insertion order
UnsortedItems(items) == items

\* sorted(params.items())
SortedItems(items) == SortedItemsFrom(items, << >>)

\* str(v) of a natural number: its decimal digits
RECURSIVE StrOfNat(_)
StrOfNat(n) ==
    IF n < 10 THEN <<48 + n>>
    ELSE StrOfNat(n \div 10) \o <<48 + (n % 10)>>

\* f"{k}={v}"
FormatItem(item) == item[1] \o <<ChEq>> \o StrOfNat(item[2])

\* "&".join([...])
RECURSIVE JoinAmp(_)
JoinAmp(items) ==
    IF items = << >> THEN << >>
    ELSE IF Len(items) = 1 THEN FormatItem(items[1])
    ELSE FormatItem(items[1]) \o <<ChAmp>> \o JoinAmp(Tail(items))

\* the canonical path of _sign_request; params is the dict as the sequence of
\* its items in insertion order, an empty (or None) dict is falsy
CanonicalPath(path, params) ==
    IF params # << >>
    THEN path \o <<ChQuery>> \o JoinAmp(SortedItems(params))
    ELSE path

\* sorted(params.keys())
RECURSIVE InsertKey(_, _)
InsertKey(k, s) ==
    IF s = << >> THEN <<k>>
    ELSE IF StrLess(k, Head(s)) THEN <<k>> \o s
    ELSE <<Head(s)>> \o InsertKey(k, Tail(s))

RECURSIVE SortedKeysFrom(_, _)
SortedKeysFrom(items, acc) ==
    IF items = << >> THEN acc
    ELSE SortedKeysFrom(Tail(items), InsertKey(Head(items)[1], acc))

SortedKeys(params) == SortedKeysFrom(params, << >>)

\* params[key]
DictGet(params, key) ==
    (CHOOSE item \in { params[i] : i \in 1..Len(params) } : item[1] = key)[2]

\* the path part of the string to sign of TuyaOpenAPI._calculate_sign: the
\* keys are sorted, each appends "key=value&", the last "&" is cut off
RECURSIVE QueryBuilder(_, _)
QueryBuilder(keys, params) ==
    IF keys = << >> THEN << >>
    ELSE FormatItem(<<Head(keys), DictGet(params, Head(keys))>>) \o <<ChAmp>>
         \o QueryBuilder(Tail(keys), params)

CalculateSignPath(path, params) ==
    IF Len(params) > 0
    THEN LET query_builder == QueryBuilder(SortedKeys(params), params)
         IN path \o <<ChQuery>> \o SubSeq(query_builder, 1, Len(query_builder) - 1)
    ELSE path

\* the dict store params[k] = v: a new key is appended, an existing key keeps
\* its position and takes the new value
DictStore(params, k, v) ==
    IF \E i \in 1..Len(params) : params[i][1] = k
    THEN [i \in 1..Len(params) |->
            IF params[i][1] = k THEN <<k, v>> ELSE params[i]]
    ELSE Append(params, <<k, v>>)

NoCall == [called |-> FALSE, path |-> << >>, params |-> << >>, canonical |-> << >>,
           connector |-> << >>]

InitCanon ==
    /\ sr_path = <<47, 97>>
    /\ sr_params = << >>
    /\ sr_call = NoCall

\* a caller starts a new request for path p with an empty params dict
NewRequest(p) ==
    /\ sr_path' = p
    /\ sr_params' = << >>
    /\ sr_call' = NoCall
    /\ UNCHANGED notCanon

\* a caller stores a parameter before the request is signed, as
\* get_scale_records does for start_time
SetParam(k, v) ==
    /\ ~sr_call.called
    /\ sr_params' = DictStore(sr_params, k, v)
    /\ UNCHANGED <<sr_path, sr_call>>
    /\ UNCHANGED notCanon

\* _sign_request(method, path, params=params), and the same request signed
\* by TuyaOpenAPI._calculate_sign
SignRequest ==
    /\ ~sr_call.called
    /\ sr_call' = [called |-> TRUE, path |-> sr_path, params |-> sr_params,
                   canonical |-> CanonicalPath(sr_path, sr_params),
                   connector |-> CalculateSignPath(sr_path, sr_params)]
    /\ UNCHANGED <<sr_path, sr_params>>
    /\ UNCHANGED notCanon

NextCanon ==
    \/ \E p \in Paths : NewRequest(p)
    \/ \E k \in Keys, v \in Values : SetParam(k, v)
    \/ SignRequest

(***************************************************************************)
(* Part 2.  TuyaSmartScaleAPI: the cached access token and the requests    *)
(***************************************************************************)

SafetyMargin == 60

\* bounds of the token model: the clock, and how long one HTTP request takes
MaxTime == 5
MaxLatency == 1

\* the tokens and lifetimes a token response can carry; AbsentTime stands for
\* a result object without the expire_time key, None for one without the
\* access_token key
AbsentTime == -1
CannedToken == "tok123"
UsualExpireTime == 7200
ResponseTokens == { None, "", CannedToken, "tok456" }
ExpireTimes == { AbsentTime, 61, 63, UsualExpireTime }

\* the bodies of a token response
\*   notjson    : response.json() raises
\*   list       : JSON, but not a dict
\*   noresult   : a dict without the key "result"
\*   resultnull : a dict whose "result" is null
\*   result     : a dict whose "result" is an object
TokenBodies == { "notjson", "list", "noresult", "resultnull", "result" }

TokenResponses ==
    [ status : {500}, body : {"notjson"}, access_token : {None}, expire_time : {AbsentTime} ]
    \cup [ status : {200}, body : TokenBodies \ {"result"},
           access_token : {None}, expire_time : {AbsentTime} ]
    \cup [ status : {200}, body : {"result"},
           access_token : {CannedToken, "tok456"}, expire_time : ExpireTimes ]
    \cup [ status : {200}, body : {"result"},
           access_token : {None, ""}, expire_time : {UsualExpireTime} ]

NoTokenResponse ==
    [ status |-> 0, body |-> "none", access_token |-> None, expire_time |-> AbsentTime ]

\* the token segment of the signed message of _sign_request:
\* message = access_id + access_token + t + str_to_sign when access_token is
\* truthy, access_id + t + str_to_sign otherwise
MessageToken(token) == IF Truthy(token) THEN token ELSE ""

\* one signed request: its kind, the access_token header (None: no such
\* header), the token segment of its signed message and the header t (ms)
Request(kind, header_token, sign_token, t) ==
    [ kind |-> kind, access_token |-> header_token,
      msg_token |-> MessageToken(sign_token), t |-> t * 1000 ]

\* a plausible slip: the cached token is used up to its expiry, with no margin
CacheValidNoMargin(token, expires, t) == Truthy(token) /\ t < expires

\* the cache test of get_access_token
CacheValid(token, expires, t) == Truthy(token) /\ t < expires - SafetyMargin

\* a plausible slip: the relative lifetime is stored as the absolute expiry
NewExpiryRelative(t, expire_time) ==
    IF expire_time = AbsentTime THEN 0 ELSE expire_time

\* token_expires = time.time() + data["result"].get("expire_time", 0)
NewExpiry(t, expire_time) ==
    t + (IF expire_time = AbsentTime THEN 0 ELSE expire_time)

\* a plausible slip: a body without "result" is not rejected
TokenResponseRaisesLenient(resp) ==
    \/ resp.status # 200
    \/ resp.body = "notjson"

\* the token responses on which get_access_token raises: a non-200 status, a
\* body that is not JSON, a body that is not a dict or has no "result", and a
\* "result" that is null (AttributeError on .get)
TokenResponseRaises(resp) ==
    \/ resp.status # 200
    \/ resp.body = "notjson"
    \/ resp.body \in {"list", "noresult"}
    \/ resp.body = "resultnull"

\* get_access_token() entered at time t with the cache (token, expires); resp
\* is the answer to the token request if one is sent, dt the time it takes
GetAccessToken(token, expires, t, resp, dt) ==
    IF CacheValid(token, expires, t)
    THEN [ raised |-> FALSE, ret |-> token, token |-> token, expires |-> expires,
           requests |-> << >>, now |-> t, resp |-> NoTokenResponse ]
    ELSE LET req == Request("token", None, None, t) IN
         IF TokenResponseRaises(resp)
         THEN [ raised |-> TRUE, ret |-> None, token |-> token, expires |-> expires,
                requests |-> <<req>>, now |-> t + dt, resp |-> resp ]
         ELSE [ raised |-> FALSE,
                ret |-> IF resp.body = "result" THEN resp.access_token ELSE None,
                token |-> IF resp.body = "result" THEN resp.access_token ELSE None,
                expires |-> NewExpiry(t + dt, resp.expire_time),
                requests |-> <<req>>, now |-> t + dt, resp |-> resp ]

\* the history records of the model: a dict with a user_id (None: no such
\* key), or an element that is not a dict
UserIds == { "u1", "u2" }
RecordElems ==
    [ dict : {TRUE}, user_id : UserIds \cup {None} ]
    \cup [ dict : {FALSE}, user_id : {None} ]
RecordLists ==
    { << >> } \cup { <<x>> : x \in RecordElems }
    \cup { <<x, y>> : x \in [ dict : {TRUE}, user_id : UserIds ],
                      y \in [ dict : {TRUE}, user_id : UserIds ] }

\* the bodies of a history response
\*   notjson, list, noresult : as for the token response
\*   resultnull  : "result" is not an object
\*   norecords   : the result object has no key "records"
\*   recordsnull : "records" is not a list
\*   records     : "records" is a list
HistoryResponses ==
    [ status : {500}, body : {"notjson"}, records : { << >> } ]
    \cup [ status : {200},
           body : {"notjson", "list", "noresult", "resultnull", "norecords", "recordsnull"},
           records : { << >> } ]
    \cup [ status : {200}, body : {"records"}, records : RecordLists ]

RECURSIVE FilterUser(_, _)
\* a plausible slip: the records of all users are kept
FilterUserKeepsAll(records, user_id) == records

FilterUser(records, user_id) ==
    IF records = << >> THEN << >>
    ELSE IF Head(records).user_id = user_id
         THEN <<Head(records)>> \o FilterUser(Tail(records), user_id)
         ELSE FilterUser(Tail(records), user_id)

\* a plausible slip: data["result"]["records"] is read without the shape
\* checks, so that a missing key raises
ParseHistoryUnchecked(resp, user_id) ==
    IF resp.status # 200 THEN [ raised |-> FALSE, records |-> << >> ]
    ELSE IF resp.body # "records" THEN [ raised |-> TRUE, records |-> << >> ]
    ELSE IF Truthy(user_id)
         THEN IF \E i \in 1..Len(resp.records) : ~resp.records[i].dict
              THEN [ raised |-> TRUE, records |-> << >> ]
              ELSE [ raised |-> FALSE, records |-> FilterUser(resp.records, user_id) ]
         ELSE [ raised |-> FALSE, records |-> resp.records ]

\* what get_scale_records makes of the history response: the empty list for
\* every response that is not a 200 with a result.records list, the records
\* (of user_id, when one is given) otherwise; rec.get on an element that is
\* not a dict raises
ParseHistory(resp, user_id) ==
    IF resp.status # 200 THEN [ raised |-> FALSE, records |-> << >> ]
    ELSE IF resp.body = "notjson" THEN [ raised |-> FALSE, records |-> << >> ]
    ELSE IF resp.body \in {"list", "noresult", "resultnull"}
         THEN [ raised |-> FALSE, records |-> << >> ]
    ELSE IF resp.body \in {"norecords", "recordsnull"}
         THEN [ raised |-> FALSE, records |-> << >> ]
    ELSE IF Truthy(user_id)
         THEN IF \E i \in 1..Len(resp.records) : ~resp.records[i].dict
              THEN [ raised |-> TRUE, records |-> << >> ]
              ELSE [ raised |-> FALSE, records |-> FilterUser(resp.records, user_id) ]
         ELSE [ raised |-> FALSE, records |-> resp.records ]

\* the bodies of a device-info or analysis-report response
ObjectResponses ==
    [ status : {500}, body : {"notjson"}, records : { << >> } ]
    \cup [ status : {200}, body : {"notjson", "list", "noresult", "result"},
           records : { << >> } ]

\* get_device_info and get_analysis_report raise on a non-200 status, on a
\* body that is not JSON and on a body that is not a dict (no .get)
ParseObject(resp) ==
    [ raised |-> resp.status # 200 \/ resp.body \in {"notjson", "list"},
      records |-> << >> ]

NoApiResponse == [ status |-> 0, body |-> "none", records |-> << >> ]

\* op          : the operation, "none" while the caller is between two calls
\* entry_now, pre_token, pre_expires : the clock and the cache at its entry
\* token_raised, token_ret : how its get_access_token() call ended
\* token_resp, token_resp_at : the token response, and when it was received
\* api_resp, user_id       : the response to its own request, its user filter
\* requests                : the HTTP requests it sent, in order
\* raised, records         : how the operation ended
\* valid                   : the value that validate_credentials returned
NoOp == [ op |-> "none", entry_now |-> 0, pre_token |-> None, pre_expires |-> 0,
          token_raised |-> FALSE, token_ret |-> None, token_resp_at |-> 0,
          token_resp |-> NoTokenResponse,
          api_resp |-> NoApiResponse, user_id |-> None,
          requests |-> << >>, raised |-> FALSE, records |-> << >>,
          valid |-> FALSE ]

InitToken ==
    /\ access_token = None
    /\ token_expires = 0
    /\ now = 0
    /\ last = NoOp

Idle == last.op = "none"

\* the token responses an operation entered now can receive
TokenResponsesNow ==
    IF CacheValid(access_token, token_expires, now)
    THEN {NoTokenResponse} ELSE TokenResponses

LatenciesNow ==
    IF CacheValid(access_token, token_expires, now) THEN {0} ELSE 0..MaxLatency

\* time passes between two operations
Tick ==
    /\ Idle
    /\ now < MaxTime
    /\ now' = now + 1
    /\ UNCHANGED <<access_token, token_expires, last>>
    /\ UNCHANGED notToken

\* the caller is done with the result of the last operation
TakeResult ==
    /\ ~Idle
    /\ last' = NoOp
    /\ UNCHANGED <<access_token, token_expires, now>>
    /\ UNCHANGED notToken

\* the part of an operation's record that its get_access_token() call fills
TokenPart(op, r) ==
    [ NoOp EXCEPT !.op = op, !.entry_now = now, !.pre_token = access_token,
                  !.pre_expires = token_expires,
                  !.token_raised = r.raised, !.token_ret = r.ret,
                  !.token_resp_at = r.now, !.token_resp = r.resp,
                  !.requests = r.requests, !.raised = r.raised ]

\* a caller invokes get_access_token()
CallGetAccessToken(resp, dt) ==
    /\ Idle
    /\ now + dt <= MaxTime
    /\ LET r == GetAccessToken(access_token, token_expires, now, resp, dt) IN
        /\ access_token' = r.token
        /\ token_expires' = r.expires
        /\ now' = r.now
        /\ last' = TokenPart("get_access_token", r)
    /\ UNCHANGED notToken

\* an operation that gets the token and then sends one signed request of the
\* given kind with it: the common shape of get_scale_records,
\* get_device_info and get_analysis_report
ApiCall(op, kind, tresp, dt, aresp, parsed, user_id) ==
    /\ Idle
    /\ now + dt <= MaxTime
    /\ LET r == GetAccessToken(access_token, token_expires, now, tresp, dt) IN
        /\ access_token' = r.token
        /\ token_expires' = r.expires
        /\ now' = r.now
        /\ last' =
            IF r.raised THEN TokenPart(op, r)
            ELSE [ TokenPart(op, r) EXCEPT
                     !.requests = Append(r.requests, Request(kind, r.ret, r.ret, r.now)),
                     !.api_resp = aresp, !.user_id = user_id,
                     !.raised = parsed.raised, !.records = parsed.records ]

\* get_scale_records(user_id=user_id)
CallGetScaleRecords(tresp, dt, hresp, user_id) ==
    /\ ApiCall("get_scale_records", "history", tresp, dt, hresp,
               ParseHistory(hresp, user_id), user_id)
    /\ UNCHANGED notToken

\* get_device_info()
CallGetDeviceInfo(tresp, dt, dresp) ==
    /\ ApiCall("get_device_info", "device", tresp, dt, dresp, ParseObject(dresp), None)
    /\ UNCHANGED notToken

\* get_analysis_report(...)
CallGetAnalysisReport(tresp, dt, aresp) ==
    /\ ApiCall("get_analysis_report", "analysis", tresp, dt, aresp, ParseObject(aresp), None)
    /\ UNCHANGED notToken

\* validate_credentials after its get_access_token() call has ended as r:
\* True when it returned, False when it raised
ValidateResult(r) == [ raised |-> FALSE, valid |-> ~r.raised ]

\* validate_credentials()
CallValidateCredentials(resp, dt) ==
    /\ Idle
    /\ now + dt <= MaxTime
    /\ LET r == GetAccessToken(access_token, token_expires, now, resp, dt) IN
        /\ access_token' = r.token
        /\ token_expires' = r.expires
        /\ now' = r.now
        /\ last' = [ TokenPart("validate_credentials", r) EXCEPT
                       !.raised = ValidateResult(r).raised,
                       !.valid = ValidateResult(r).valid ]
    /\ UNCHANGED notToken

NextToken ==
    \/ Tick
    \/ TakeResult
    \/ \E resp \in TokenResponsesNow, dt \in LatenciesNow : CallGetAccessToken(resp, dt)
    \/ \E resp \in TokenResponsesNow, dt \in LatenciesNow : CallValidateCredentials(resp, dt)
    \/ \E tresp \in TokenResponsesNow, dt \in LatenciesNow, hresp \in HistoryResponses,
          user_id \in {None, "u1"} :
            CallGetScaleRecords(tresp, dt, hresp, user_id)
    \/ \E tresp \in TokenResponsesNow, dt \in LatenciesNow, dresp \in ObjectResponses :
            CallGetDeviceInfo(tresp, dt, dresp)
    \/ \E tresp \in TokenResponsesNow, dt \in LatenciesNow, aresp \in ObjectResponses :
            CallGetAnalysisReport(tresp, dt, aresp)

(***************************************************************************)
(* Part 3.  get_all_scale_data_history: the multi-page retrieval loop      *)
(***************************************************************************)

\* bounds of the pagination model
MaxPageSize == 3
MaxTotal == 4
MaxServerRecords == 5

\* a result without the key "total"
AbsentTotal == -1

\* the server of a run: one that holds n records and serves them honestly
\* (total = n, consecutive pages of page_size), or one that answers each page
\* request in any way
ArbitraryServer == [ honest |-> FALSE, n |-> 0 ]
Servers == [ honest : {TRUE}, n : 0..MaxServerRecords ] \cup {ArbitraryServer}

\* the records of page p of size s when the page holds k records: the server's
\* records are numbered 1, 2, 3, ... in its page order
RECURSIVE Range(_, _)
Range(lo, hi) == IF lo > hi THEN << >> ELSE <<lo>> \o Range(lo + 1, hi)

PageRecords(p, s, k) == Range((p - 1) * s + 1, (p - 1) * s + k)

Min(a, b) == IF a < b THEN a ELSE b
Max(a, b) == IF a < b THEN b ELSE a

\* what api.get_scale_records(device_id, page_no, page_size, start_time) can do
\*   exception   : it raises (HTTP status, API error, token failure, bad JSON)
\*   falsy       : it returns a result that is None or empty
\*   norecords   : the result has no key "records"
\*   recordsnull : the result has "records", but it is not a list
\*   page        : the result has a records list (and a total, or none); the
\*                 list can be shorter or longer than the page asked for
PageAnswer(kind, records, total) == [ kind |-> kind, records |-> records, total |-> total ]

ArbitraryAnswers(p, s) ==
    { PageAnswer(k, << >>, AbsentTotal) : k \in {"exception", "falsy", "norecords", "recordsnull"} }
    \cup { PageAnswer("page", PageRecords(p, s, k), t) :
             k \in 0..(s + 1), t \in (0..MaxTotal) \cup {AbsentTotal} }

HonestAnswer(n, p, s) ==
    PageAnswer("page", PageRecords(p, s, Max(0, Min(s, n - (p - 1) * s))), n)

Answers(srv, p, s) ==
    IF srv.honest THEN { HonestAnswer(srv.n, p, s) } ELSE ArbitraryAnswers(p, s)

\* a plausible slip: the loop ends on a short page or a failure only, the
\* server-reported total is not compared
PassNoTotal(lv, answer, s) ==
    IF answer.kind \in {"exception", "recordsnull", "falsy", "norecords"}
    THEN [ lv EXCEPT !.pc = "done" ]
    ELSE LET num_records == Len(answer.records)
             retrieved == lv.total_records_retrieved + num_records
         IN [ pc |-> IF num_records < s THEN "done" ELSE "loop",
              all_data |-> lv.all_data \o answer.records,
              page_no |-> lv.page_no + 1,
              total_records_retrieved |-> retrieved,
              total_records |-> retrieved + 1 ]

\* a plausible slip: the except clause re-raises instead of breaking
PassRaising(lv, answer, s) ==
    IF answer.kind \in {"exception", "recordsnull"}
    THEN [ lv EXCEPT !.pc = "raised" ]
    ELSE IF answer.kind \in {"falsy", "norecords"}
    THEN [ lv EXCEPT !.pc = "done" ]
    ELSE LET num_records == Len(answer.records)
             retrieved == lv.total_records_retrieved + num_records
             total == IF answer.total = AbsentTotal THEN retrieved ELSE answer.total
         IN [ pc |-> IF num_records < s THEN "done"
                     ELSE IF retrieved < total THEN "loop" ELSE "done",
              all_data |-> lv.all_data \o answer.records,
              page_no |-> lv.page_no + 1,
              total_records_retrieved |-> retrieved,
              total_records |-> total ]

\* a plausible slip: the loop condition compares with <= instead of <
PassInclusiveTotal(lv, answer, s) ==
    IF answer.kind \in {"exception", "recordsnull", "falsy", "norecords"}
    THEN [ lv EXCEPT !.pc = "done" ]
    ELSE LET num_records == Len(answer.records)
             retrieved == lv.total_records_retrieved + num_records
             total == IF answer.total = AbsentTotal THEN retrieved ELSE answer.total
         IN [ pc |-> IF num_records < s THEN "done"
                     ELSE IF retrieved <= total THEN "loop" ELSE "done",
              all_data |-> lv.all_data \o answer.records,
              page_no |-> lv.page_no + 1,
              total_records_retrieved |-> retrieved,
              total_records |-> total ]

\* one pass of the while loop on the locals lv, for the answer to the page
\* request, followed by the test of the loop condition:
\*   an exception (raised by the call or by len() of a records value that is
\*   not a list) and a result without records break, leaving the locals as
\*   they are; a page is counted and appended, and the loop ends when the page
\*   is short or total_records_retrieved < total_records fails; a result
\*   without "total" makes total_records the running count
Pass(lv, answer, s) ==
    IF answer.kind \in {"exception", "recordsnull"}
    THEN [ lv EXCEPT !.pc = "done" ]
    ELSE IF answer.kind \in {"falsy", "norecords"}
    THEN [ lv EXCEPT !.pc = "done" ]
    ELSE LET num_records == Len(answer.records)
             retrieved == lv.total_records_retrieved + num_records
             total == IF answer.total = AbsentTotal THEN retrieved ELSE answer.total
         IN [ pc |-> IF num_records < s THEN "done"
                     ELSE IF retrieved < total THEN "loop" ELSE "done",
              all_data |-> lv.all_data \o answer.records,
              page_no |-> lv.page_no + 1,
              total_records_retrieved |-> retrieved,
              total_records |-> total ]

\* pc: "idle" before a call, "loop" at the top of the while loop with a true
\* condition, "done" once all_data is returned, "raised" once the call raised
IdleLocals ==
    [ pc |-> "idle", all_data |-> << >>, page_no |-> 1,
      total_records_retrieved |-> 0, total_records |-> 1 ]

InitPage ==
    /\ pg = IdleLocals
    /\ page_size = 1
    /\ server = ArbitraryServer
    /\ page_log = << >>

\* get_all_scale_data_history(api, device_id, page_size=s) is called
StartHistory(s, srv) ==
    /\ pg.pc \in {"idle", "done", "raised"}
    /\ pg' = [ IdleLocals EXCEPT !.pc = "loop" ]
    /\ page_size' = s
    /\ server' = srv
    /\ page_log' = << >>
    /\ UNCHANGED notPage

\* one pass of the loop: the request for page page_no and what follows it
FetchPage(answer) ==
    /\ pg.pc = "loop"
    /\ pg' = Pass(pg, answer, page_size)
    /\ page_log' = Append(page_log, [ page_no |-> pg.page_no, answer |-> answer ])
    /\ UNCHANGED <<page_size, server>>
    /\ UNCHANGED notPage

NextPage ==
    \/ \E s \in 1..MaxPageSize, srv \in Servers : StartHistory(s, srv)
    \/ \E answer \in Answers(server, pg.page_no, page_size) : FetchPage(answer)

(***************************************************************************)
(* Part 4.  TuyaOpenAPI: the token handling of the bundled connector       *)
(***************************************************************************)

\* bounds of the connector model: the depth at which Python raises
\* RecursionError, and how far the clock runs
MaxStack == 7
MaxClockTicks == 3

\* the clock time.time() * 1000 at the start, in scaled milliseconds, and the
\* lifetimes a token result can carry: none (0 is the default), the usual
\* relative lifetime in seconds, and a value ahead of the clock
StartClock == 10000
OaExpireTimes == { 0, UsualExpireTime, StartClock + 2 }

\* TuyaTokenInfo(result); NoTokenInfo is token_info = None
NoTokenInfo ==
    [ set |-> FALSE, access_token |-> "", refresh_token |-> "", expire_time |-> 0 ]
TuyaTokenInfo(result) ==
    [ set |-> TRUE, access_token |-> result.access_token,
      refresh_token |-> result.refresh_token, expire_time |-> result.expire_time ]

\* what a sent request can come back with
\*   error   : the transport raises
\*   notok   : response.ok is false, _request returns None
\*   failure : a JSON body with success false
\*   success : a JSON body with success true and a result
OaResult(kind, access, refresh, expire) ==
    [ kind |-> kind, access_token |-> access, refresh_token |-> refresh,
      expire_time |-> expire ]
OaNoResult == OaResult("none", "", "", 0)
OaResponses ==
    { OaResult(k, "", "", 0) : k \in {"error", "notok", "failure"} }
    \cup { OaResult("success", a, r, e) :
             a \in {"T1", "T2"}, r \in {"", "R1"}, e \in OaExpireTimes }

\* a frame of the call stack: the coroutine, its position, and for _request
\* the request it is to send ("token": GET /v1.0/token, "refresh":
\* GET /v1.0/token/{refresh_token}, "api": any other request)
Frame(fn, pc, kind) == [ fn |-> fn, pc |-> pc, kind |-> kind ]

\* the token segment of the signed message of _calculate_sign: the held
\* token whenever token_info is not None
CalculateSignToken(info) ==
    IF info.set THEN info.access_token ELSE ""

\* the expiry test of _request at the clock value ms
TokenJudgedExpired(info, ms) ==
    info.set /\ ms >= info.expire_time

NoRequest == [ kind |-> "none", msg_token |-> "", access_token |-> "" ]

InitOpen ==
    /\ session = FALSE
    /\ token_info = NoTokenInfo
    /\ clock = StartClock
    /\ stack = << >>
    /\ returned = OaNoResult
    /\ outcome = "none"
    /\ sent = NoRequest

Top == stack[Len(stack)]
Running(fn, pc) == stack # << >> /\ Top.fn = fn /\ Top.pc = pc

\* the running coroutine moves to pc and awaits the coroutine of frame; at
\* the recursion limit the call raises RecursionError, which no frame handles
Await(pc, frame) ==
    IF Len(stack) < MaxStack
    THEN /\ stack' = Append([ stack EXCEPT ![Len(stack)].pc = pc ], frame)
         /\ outcome' = outcome
    ELSE /\ stack' = << >>
         /\ outcome' = "recursion_error"

\* the running coroutine returns value to the coroutine that awaits it
Return(value) ==
    /\ stack' = SubSeq(stack, 1, Len(stack) - 1)
    /\ returned' = value
    /\ outcome' = IF Len(stack) = 1 THEN "returned" ELSE outcome

\* the running coroutine raises: no coroutine of the connector handles it
Raise ==
    /\ stack' = << >>
    /\ outcome' = "raised"

\* the clock advances between two calls on the connector
ClockTick ==
    /\ stack = << >>
    /\ clock < StartClock + MaxClockTicks
    /\ clock' = clock + 1
    /\ UNCHANGED <<session, token_info, stack, returned, outcome, sent>>
    /\ UNCHANGED notOpen

\* a caller invokes connect()
CallConnect ==
    /\ stack = << >>
    /\ stack' = << Frame("connect", "start", "none") >>
    /\ outcome' = "running"
    /\ UNCHANGED <<session, token_info, clock, returned, sent>>
    /\ UNCHANGED notOpen

\* a caller invokes get(), post(), put() or delete(): _request for an API path
CallRequest ==
    /\ stack = << >>
    /\ stack' = << Frame("_request", "start", "api") >>
    /\ outcome' = "running"
    /\ UNCHANGED <<session, token_info, clock, returned, sent>>
    /\ UNCHANGED notOpen

\* a caller invokes close()
CallClose ==
    /\ stack = << >>
    /\ session' = FALSE
    /\ outcome' = "returned"
    /\ UNCHANGED <<token_info, clock, stack, returned, sent>>
    /\ UNCHANGED notOpen

\* connect(): create the session if there is none, then await _get_token()
ConnectStart ==
    /\ Running("connect", "start")
    /\ session' = TRUE
    /\ Await("return", Frame("_get_token", "start", "none"))
    /\ UNCHANGED <<token_info, clock, returned, sent>>
    /\ UNCHANGED notOpen

\* _get_token() with the response of its token request: response.get on
\* None raises, success stores the token info, anything else raises
GetTokenResponse ==
    IF returned.kind = "success"
    THEN /\ token_info' = TuyaTokenInfo(returned)
         /\ Return(OaNoResult)
    ELSE /\ Raise
         /\ UNCHANGED <<token_info, returned>>

\* _refresh_token() with the response of its refresh request: success stores
\* the token info, a failure awaits _get_token(), response.get on None raises
RefreshResponse ==
    IF returned.kind = "success"
    THEN /\ token_info' = TuyaTokenInfo(returned)
         /\ Return(OaNoResult)
    ELSE IF returned.kind = "notok"
    THEN /\ Raise
         /\ UNCHANGED <<token_info, returned>>
    ELSE /\ Await("return", Frame("_get_token", "start", "none"))
         /\ UNCHANGED <<token_info, returned>>

\* the _request awaited by _get_token() or _refresh_token() has returned
ResponseReturned ==
    /\ stack # << >>
    /\ Top.pc = "response"
    /\ IF Top.fn = "_get_token" THEN GetTokenResponse ELSE RefreshResponse
    /\ UNCHANGED <<session, clock, sent>>
    /\ UNCHANGED notOpen

\* the _get_token() awaited by connect() or _refresh_token() has returned:
\* the awaiting coroutine returns too
GetTokenReturned ==
    /\ stack # << >>
    /\ Top.pc = "return"
    /\ Return(OaNoResult)
    /\ UNCHANGED <<session, token_info, clock, sent>>
    /\ UNCHANGED notOpen

\* _get_token(): await _request("GET", TO_B_TOKEN_API, {"grant_type": 1})
GetTokenStart ==
    /\ Running("_get_token", "start")
    /\ Await("response", Frame("_request", "start", "token"))
    /\ UNCHANGED <<session, token_info, clock, returned, sent>>
    /\ UNCHANGED notOpen

\* _refresh_token(): without a refresh token await _get_token(), else await
\* the refresh request
RefreshStart ==
    /\ Running("_refresh_token", "start")
    /\ IF ~token_info.set \/ token_info.refresh_token = ""
       THEN Await("return", Frame("_get_token", "start", "none"))
       ELSE Await("response", Frame("_request", "start", "refresh"))
    /\ UNCHANGED <<session, token_info, clock, returned, sent>>
    /\ UNCHANGED notOpen

\* _request(): without a session await connect()
RequestStart ==
    /\ Running("_request", "start")
    /\ IF ~session
       THEN Await("expiry", Frame("connect", "start", "none"))
       ELSE /\ stack' = [ stack EXCEPT ![Len(stack)].pc = "expiry" ]
            /\ outcome' = outcome
    /\ UNCHANGED <<session, token_info, clock, returned, sent>>
    /\ UNCHANGED notOpen

\* _request(): with a token judged expired await _refresh_token()
RequestExpiry ==
    /\ Running("_request", "expiry")
    /\ IF TokenJudgedExpired(token_info, clock)
       THEN Await("send", Frame("_refresh_token", "start", "none"))
       ELSE /\ stack' = [ stack EXCEPT ![Len(stack)].pc = "send" ]
            /\ outcome' = outcome
    /\ UNCHANGED <<session, token_info, clock, returned, sent>>
    /\ UNCHANGED notOpen

\* _request(): sign with _calculate_sign, send, and return the JSON body,
\* None when the response is not ok; a transport error is re-raised
RequestSend(resp) ==
    /\ Running("_request", "send")
    /\ sent' = [ kind |-> Top.kind,
                 msg_token |-> CalculateSignToken(token_info),
                 access_token |-> IF token_info.set THEN token_info.access_token ELSE "" ]
    /\ IF resp.kind = "error"
       THEN /\ Raise
            /\ UNCHANGED returned
       ELSE Return(resp)
    /\ UNCHANGED <<session, token_info, clock>>
    /\ UNCHANGED notOpen

NextOpen ==
    \/ ClockTick
    \/ CallConnect
    \/ CallRequest
    \/ CallClose
    \/ ConnectStart
    \/ GetTokenStart
    \/ RefreshStart
    \/ ResponseReturned
    \/ GetTokenReturned
    \/ RequestStart
    \/ RequestExpiry
    \/ \E resp \in OaResponses : RequestSend(resp)

(***************************************************************************)
(* Part 5.  TuyaSmartScaleAPI.get_scale_users                              *)
(***************************************************************************)

\* bound: the number of records in the page that get_scale_users scans
MaxUsersPage == 3

\* A history record, with the keys that get_scale_users and get_latest_data
\* read; None stands for a key that is absent (or null).  height and wegith
\* are numbers, Unparsable a value on which float() raises.
ScaleRecord(user_id, nick_name, nickname, height, wegith, body_r) ==
    [ dict |-> TRUE, user_id |-> user_id, nick_name |-> nick_name,
      nickname |-> nickname, height |-> height, wegith |-> wegith,
      body_r |-> body_r ]

\* an element of the records list that is not an object: rec.get raises
NotARecord ==
    [ dict |-> FALSE, user_id |-> None, nick_name |-> None, nickname |-> None,
      height |-> 0, wegith |-> 0, body_r |-> None ]

\* len(user_id.strip()) > 0 fails exactly for the strings made of whitespace
\* only; of those the model has "" and " "
OnlyWhitespace(user_id) == user_id \in { "", " " }

\* rec.get("nick_name") or rec.get("nickname")
NicknameOf(rec) == IF Truthy(rec.nick_name) THEN rec.nick_name ELSE rec.nickname

\* user_id in users, for the dict users in insertion order
InUsers(user_id, users) == \E i \in 1..Len(users) : users[i].user_id = user_id

\* a plausible slip: the test for "0" is left out
KeepsUserNoZeroTest(user_id, users) ==
    /\ Truthy(user_id)
    /\ ~OnlyWhitespace(user_id)
    /\ ~InUsers(user_id, users)

\* the condition under which the loop of get_scale_users adds a user
KeepsUser(user_id, users) ==
    /\ Truthy(user_id)
    /\ user_id # "0"
    /\ ~OnlyWhitespace(user_id)
    /\ ~InUsers(user_id, users)

\* the loop of get_scale_users over the records not yet scanned; users is
\* the dict built so far, in insertion order
RECURSIVE ScanUsers(_, _)
ScanUsers(records, users) ==
    IF records = << >> THEN users
    ELSE LET rec == Head(records) IN
         ScanUsers(Tail(records),
                   IF KeepsUser(rec.user_id, users)
                   THEN Append(users, [ user_id |-> rec.user_id,
                                        nickname |-> NicknameOf(rec) ])
                   ELSE users)

\* get_scale_users after its get_scale_records(limit=100) call has returned
\* parsed: rec.get on an element that is not an object raises
ScaleUsers(parsed) ==
    IF parsed.raised \/ \E i \in 1..Len(parsed.records) : ~parsed.records[i].dict
    THEN [ raised |-> TRUE, users |-> << >> ]
    ELSE [ raised |-> FALSE, users |-> ScanUsers(parsed.records, << >>) ]

\* the token responses of this part and of Part 6: a failure, a long-lived
\* token, and a token that leaves the safety margin at once
FewTokenResponses ==
    { r \in TokenResponses :
        \/ r.status = 500
        \/ r.body = "result" /\ r.access_token = CannedToken /\ r.expire_time = UsualExpireTime
        \/ r.body = "result" /\ r.access_token = "tok456" /\ r.expire_time = 61 }

FewTokenResponsesNow ==
    IF CacheValid(access_token, token_expires, now)
    THEN {NoTokenResponse} ELSE FewTokenResponses

\* the records of the page that get_scale_users scans
UsersPageElems ==
    { ScaleRecord(u, "Al", None, 170, 65, "550") : u \in { None, "", "0", " " } }
    \cup { ScaleRecord("u1", n[1], n[2], 170, 65, "550") :
             n \in { <<"Al", None>>, <<"", "Bo">>, <<None, None>> } }
    \cup { ScaleRecord("u2", "Cy", "Di", 170, 65, "550") }
    \cup { NotARecord }

\* the lists of at most n elements
ListsUpTo(elems, n) == UNION { [ 1..k -> elems ] : k \in 0..n }

UsersResponses ==
    [ status : {500}, body : {"notjson"}, records : { << >> } ]
    \cup [ status : {200}, body : {"noresult", "recordsnull"}, records : { << >> } ]
    \cup [ status : {200}, body : {"records"}, records : ListsUpTo(UsersPageElems, MaxUsersPage) ]

\* op "none": the caller is between two calls
SuNone == [ op |-> "none", token_raised |-> FALSE, resp |-> NoApiResponse,
            raised |-> FALSE, users |-> << >> ]

InitUsers == su = SuNone

\* get_scale_users(): get_scale_records(limit=100), which gets the token and
\* sends the history request, then the scan
CallGetScaleUsers ==
    /\ su.op = "none"
    /\ \E tresp \in FewTokenResponsesNow, dt \in LatenciesNow, hresp \in UsersResponses :
        LET r == GetAccessToken(access_token, token_expires, now, tresp, dt)
            u == ScaleUsers(ParseHistory(hresp, None))
        IN
        /\ now + dt <= MaxTime
        /\ access_token' = r.token
        /\ token_expires' = r.expires
        /\ now' = r.now
        /\ su' = IF r.raised
                 THEN [ SuNone EXCEPT !.op = "get_scale_users", !.token_raised = TRUE,
                                      !.raised = TRUE ]
                 ELSE [ SuNone EXCEPT !.op = "get_scale_users", !.resp = hresp,
                                      !.raised = u.raised, !.users = u.users ]
    /\ UNCHANGED notUsers

\* the caller is done with the users
UsersTakeResult ==
    /\ su.op # "none"
    /\ su' = SuNone
    /\ UNCHANGED <<access_token, token_expires, now>>
    /\ UNCHANGED notUsers

NextUsers ==
    \/ UsersTakeResult
    \/ CallGetScaleUsers

(***************************************************************************)
(* Part 6.  TuyaSmartScaleAPI.get_latest_data                              *)
(***************************************************************************)

\* bound: the number of records in the page fetched for one user
MaxLatestPage == 2

\* a height or wegith on which float() raises (null, a string that is not a
\* number)
Unparsable == -1

\* the measurements of the records of this part: complete ones, and ones
\* that lack a valid height, weight or resistance
Measurements ==
    { <<170, 65, "550">>, <<170, 64, "500">>, <<170, 65, "0">>, <<170, 65, "">>,
      <<170, 65, None>>, <<0, 65, "550">>, <<170, 0, "550">>, <<Unparsable, 65, "550">> }

\* the records of the page fetched for one user; the server does not filter
\* by user, so the page can hold records of other users
LatestPageElems ==
    { ScaleRecord("u1", None, None, x[1], x[2], x[3]) : x \in Measurements }
    \cup { ScaleRecord("u2", None, None, 170, 65, "550") }
    \cup { NotARecord }

LatestResponses ==
    [ status : {500}, body : {"notjson"}, records : { << >> } ]
    \cup [ status : {200}, body : {"noresult"}, records : { << >> } ]
    \cup [ status : {200}, body : {"records"},
           records : ListsUpTo(LatestPageElems, MaxLatestPage) ]

\* the first record with record.get("body_r") truthy and not "0": its
\* position, 0 when there is none (record_with_resistance is None)
RecordWithResistance(records) ==
    LET hits == { i \in 1..Len(records) :
                    Truthy(records[i].body_r) /\ records[i].body_r # "0" }
    IN IF hits = {} THEN 0 ELSE CHOOSE i \in hits : \A j \in hits : i <= j

\* analysis_record = record_with_resistance or latest_record
AnalysisRecord(records) ==
    IF RecordWithResistance(records) = 0 THEN records[1]
    ELSE records[RecordWithResistance(records)]

\* float(analysis_record.get("height", 0)) or float(....get("wegith", 0)) raises
FloatRaises(rec) == rec.height = Unparsable \/ rec.wegith = Unparsable

\* a plausible slip: the resistance is not tested
GateNoResistance(rec) ==
    /\ ~FloatRaises(rec)
    /\ rec.height > 0
    /\ rec.wegith > 0

\* height > 0 and weight > 0 and resistance and resistance != "0", reached
\* only when float() did not raise
Gate(rec) ==
    /\ ~FloatRaises(rec)
    /\ rec.height > 0
    /\ rec.wegith > 0
    /\ Truthy(rec.body_r)
    /\ rec.body_r # "0"

\* the body of the analysis-report POST
BodyData(rec) == [ height |-> rec.height, weight |-> rec.wegith, resistance |-> rec.body_r ]

NoBody == [ height |-> 0, weight |-> 0, resistance |-> None ]

\* the value of latest_record["analysis_report"]: absent, the empty dict
\* that .get("result", {}) gives for a body without "result", or the report
\* that the server computed from the body it was sent
NoReport == [ kind |-> "absent", of |-> NoBody ]
EmptyReport == [ kind |-> "empty", of |-> NoBody ]
Report(body) == [ kind |-> "report", of |-> body ]

\* what get_analysis_report returns for a response to the POST with body
AnalysisResult(resp, body) ==
    IF resp.body = "result" THEN Report(body) ELSE EmptyReport

\* latest_record after latest_record["analysis_report"] = ... (when a report
\* was obtained) and latest_record.update({"nickname": user.get("nickname")})
Stored(user, rec, report) ==
    [ user_id |-> user.user_id,
      record |-> [ rec EXCEPT !.nickname = user.nickname ],
      analysis_report |-> report ]

\* what get_latest_data did for one user
\*   user    : the entry of users
\*   fetch   : "raised" (get_scale_records raised), "empty" (it returned
\*             no records), "crowded" (it returned none because the page,
\*             a full one, holds records of other users only) or "ok"
\*   latest_record, analysis_record : the locals of these names, once
\*             get_scale_records has returned records of the user
\*   first_in_page : the first record of the user in the page as the
\*             server sent it
\*   called  : get_analysis_report was called
\*   posted  : its POST request was sent
\*   body    : the body of that request
\*   failed  : the enrichment raised (float(), the token request, the
\*             response to the POST)
\*   stored  : result[user_id] was set
NoEntry ==
    [ user |-> [ user_id |-> None, nickname |-> None ], fetch |-> "none",
      latest_record |-> NotARecord, analysis_record |-> NotARecord,
      first_in_page |-> NotARecord,
      called |-> FALSE, posted |-> FALSE, body |-> NoBody,
      failed |-> FALSE, stored |-> FALSE ]

\*   pc       : "idle", "records" (about to fetch the records of users[i]),
\*              "analysis" (about to call get_analysis_report for users[i])
\*              or "done" (returned)
\*   cur      : the entry of the user being processed
\*   log      : the entries of the users processed, in order
\*   result   : the dict result, in insertion order; its value once done
\*   excepted : the outer except clause was entered
\*   token_failed : a token request of this call failed
\*   raised   : the call raised to its caller (every Exception is caught by
\*              the outer except clause, so nothing sets it)
LdIdle ==
    [ pc |-> "idle", users |-> << >>, i |-> 0, cur |-> NoEntry, log |-> << >>,
      result |-> << >>, excepted |-> FALSE, token_failed |-> FALSE,
      raised |-> FALSE ]

InitLatest == ld = LdIdle

\* the end of one pass of the loop over users
NextUser(l, entry) ==
    [ l EXCEPT !.log = Append(l.log, entry), !.cur = NoEntry,
               !.pc = IF l.i = Len(l.users) THEN "done" ELSE "records",
               !.i = IF l.i = Len(l.users) THEN l.i ELSE l.i + 1 ]

\* lines 234-235: the nickname is set and the record stored
StoreRecord(l, entry, report) ==
    NextUser([ l EXCEPT !.result =
                 Append(l.result, Stored(entry.user, entry.latest_record, report)) ],
             [ entry EXCEPT !.stored = TRUE ])

\* a plausible slip: an exception of get_analysis_report is not caught in
\* the loop and reaches the outer except clause, which returns {}
EnrichmentFailedAborts(l, entry) ==
    [ l EXCEPT !.pc = "done", !.excepted = TRUE, !.result = << >>, !.cur = NoEntry,
               !.log = Append(l.log, [ entry EXCEPT !.failed = TRUE ]) ]

\* lines 231-232: an exception raised between lines 210 and 228 is logged,
\* and the pass goes on without a report
EnrichmentFailed(l, entry) ==
    StoreRecord(l, [ entry EXCEPT !.failed = TRUE ], NoReport)

\* _async_update_data of the coordinator raises UpdateFailed exactly when
\* get_latest_data raises
UpdateFailed == ld.pc = "done" /\ ld.raised

\* get_latest_data() up to the return of get_scale_users(): an exception
\* (of the token request, of the scan) ends in the outer except clause,
\* which returns {}; so does an empty list of users
LatestUsers ==
    /\ ld.pc = "idle"
    /\ \E tresp \in FewTokenResponsesNow, dt \in LatenciesNow, hresp \in UsersResponses :
        LET r == GetAccessToken(access_token, token_expires, now, tresp, dt)
            u == ScaleUsers(ParseHistory(hresp, None))
        IN
        /\ now + dt <= MaxTime
        /\ access_token' = r.token
        /\ token_expires' = r.expires
        /\ now' = r.now
        /\ ld' = IF r.raised
                 THEN [ ld EXCEPT !.pc = "done", !.excepted = TRUE, !.token_failed = TRUE ]
                 ELSE IF u.raised
                 THEN [ ld EXCEPT !.pc = "done", !.excepted = TRUE ]
                 ELSE IF u.users = << >>
                 THEN [ ld EXCEPT !.pc = "done" ]
                 ELSE [ ld EXCEPT !.pc = "records", !.users = u.users, !.i = 1 ]
    /\ UNCHANGED notLatest

\* one pass of the loop up to the call of get_analysis_report: the records
\* of the user are fetched (an exception or an empty list skips the user),
\* the record to analyse is chosen and the gate is tested; float() raising
\* and a closed gate leave the record without a report
LatestRecords ==
    /\ ld.pc = "records"
    /\ \E tresp \in FewTokenResponsesNow, dt \in LatenciesNow, hresp \in LatestResponses :
        LET user == ld.users[ld.i]
            r == GetAccessToken(access_token, token_expires, now, tresp, dt)
            parsed == ParseHistory(hresp, user.user_id)
            entry == [ NoEntry EXCEPT !.user = user ]
            tf == [ ld EXCEPT !.token_failed = ld.token_failed \/ r.raised ]
        IN
        /\ now + dt <= MaxTime
        /\ access_token' = r.token
        /\ token_expires' = r.expires
        /\ now' = r.now
        /\ ld' = IF r.raised \/ parsed.raised
                 THEN NextUser(tf, [ entry EXCEPT !.fetch = "raised" ])
                 ELSE IF parsed.records = << >>
                 THEN NextUser(tf, [ entry EXCEPT !.fetch =
                                 IF Len(hresp.records) = MaxLatestPage
                                 THEN "crowded" ELSE "empty" ])
                 ELSE LET latest_record == parsed.records[1]
                          analysis_record == AnalysisRecord(parsed.records)
                          own == { k \in 1..Len(hresp.records) :
                                     hresp.records[k].user_id = user.user_id }
                          first == IF own = {} THEN NotARecord
                                   ELSE hresp.records[CHOOSE k \in own :
                                                        \A j \in own : k <= j]
                          fetched == [ entry EXCEPT !.fetch = "ok",
                                                    !.latest_record = latest_record,
                                                    !.analysis_record = analysis_record,
                                                    !.first_in_page = first ]
                      IN IF FloatRaises(analysis_record)
                         THEN EnrichmentFailed(tf, fetched)
                         ELSE IF Gate(analysis_record)
                         THEN [ tf EXCEPT !.pc = "analysis", !.cur = fetched ]
                         ELSE StoreRecord(tf, fetched, NoReport)
    /\ UNCHANGED notLatest

\* the rest of the pass: get_analysis_report gets the token and sends the
\* POST; whatever it raises is caught, and the record is stored with or
\* without the report
LatestAnalysis ==
    /\ ld.pc = "analysis"
    /\ \E tresp \in FewTokenResponsesNow, dt \in LatenciesNow, aresp \in ObjectResponses :
        LET r == GetAccessToken(access_token, token_expires, now, tresp, dt)
            body == BodyData(ld.cur.analysis_record)
            called == [ ld.cur EXCEPT !.called = TRUE ]
            posted == [ called EXCEPT !.posted = TRUE, !.body = body ]
        IN
        /\ now + dt <= MaxTime
        /\ access_token' = r.token
        /\ token_expires' = r.expires
        /\ now' = r.now
        /\ ld' = IF r.raised
                 THEN EnrichmentFailed([ ld EXCEPT !.token_failed = TRUE ], called)
                 ELSE IF ParseObject(aresp).raised
                 THEN EnrichmentFailed(ld, posted)
                 ELSE StoreRecord(ld, posted, AnalysisResult(aresp, body))
    /\ UNCHANGED notLatest

\* the caller (the coordinator) is done with the result; the next update
\* finds the token cache as this one left it
LatestTakeResult ==
    /\ ld.pc = "done"
    /\ ld' = LdIdle
    /\ UNCHANGED <<access_token, token_expires, now>>
    /\ UNCHANGED notLatest

NextLatest ==
    \/ LatestUsers
    \/ LatestRecords
    \/ LatestAnalysis
    \/ LatestTakeResult

(***************************************************************************)
(* Part 7.  TuyaScaleAPI: the token of the standalone downloader's client  *)
(***************************************************************************)

\* bound: the clock of this part
MaxClientTime == 5

\* the lifetimes (expire_time, in seconds) of the tokens issued in this part
ClientExpireTimes == { 2, 3 }

\* the answers to the token request
\*   http    : a status other than 200
\*   failure : a 200 whose body has no true "success"
\*   token   : a 200 with success and result.access_token
ClientTokenResponses ==
    [ kind : {"http", "failure"}, access_token : {None}, expire_time : {0} ]
    \cup [ kind : {"token"}, access_token : {"tokA", "tokB"},
           expire_time : ClientExpireTimes ]

\* the answers to a history request or an analysis-report POST
ClientApiResponses == { "http", "failure", "result" }

NoLease == [ issued_at |-> 0, expire_time |-> 0 ]

\* the expire_time of the token held has elapsed since it was issued
LeaseElapsed(lease, t) == t >= lease.issued_at + lease.expire_time

\* one request of the client: the access_token header (None: none), and
\* whether that token's expire_time had elapsed when the request was sent
ClientRequest(kind, token, elapsed) == [ kind |-> kind, access_token |-> token, elapsed |-> elapsed ]

\* TuyaScaleAPI.get_access_token(): one token request; the token of a
\* successful answer is stored, its expire_time is not
ClientGetAccessToken(token, lease, t, resp) ==
    IF resp.kind = "token"
    THEN [ raised |-> FALSE, token |-> resp.access_token,
           lease |-> [ issued_at |-> t, expire_time |-> resp.expire_time ],
           requests |-> << ClientRequest("token", None, FALSE) >> ]
    ELSE [ raised |-> TRUE, token |-> token, lease |-> lease,
           requests |-> << ClientRequest("token", None, FALSE) >> ]

\* the head of get_scale_records and of get_analysis_report:
\*   if not self.access_token: self.get_access_token()
ClientEnsureToken(token, lease, t, resp) ==
    IF Truthy(token)
    THEN [ raised |-> FALSE, token |-> token, lease |-> lease, requests |-> << >> ]
    ELSE ClientGetAccessToken(token, lease, t, resp)

ClientNoCall == [ op |-> "none", requests |-> << >>, raised |-> FALSE, result |-> "none" ]

InitClient ==
    /\ cl_token = None
    /\ cl_lease = NoLease
    /\ cl_now = 0
    /\ cl_last = ClientNoCall

\* time passes between two calls
ClientTick ==
    /\ cl_now < MaxClientTime
    /\ cl_now' = cl_now + 1
    /\ cl_last' = ClientNoCall
    /\ UNCHANGED <<cl_token, cl_lease>>
    /\ UNCHANGED notClient

\* update_data constructs a new client: TuyaScaleAPI(ACCESS_ID, ACCESS_KEY, REGION)
ClientNew ==
    /\ cl_token # None
    /\ cl_token' = None
    /\ cl_lease' = NoLease
    /\ cl_last' = ClientNoCall
    /\ UNCHANGED cl_now
    /\ UNCHANGED notClient

\* a call that makes sure of a token and then sends one signed request with
\* self.access_token; raises_on are the answers on which it raises, the
\* others make it return None
ClientCall(op, kind, raises_on) ==
    \E tresp \in ClientTokenResponses, aresp \in ClientApiResponses :
        LET r == ClientEnsureToken(cl_token, cl_lease, cl_now, tresp)
            request == ClientRequest(kind, r.token, LeaseElapsed(r.lease, cl_now))
        IN
        /\ cl_token' = r.token
        /\ cl_lease' = r.lease
        /\ cl_last' =
              IF r.raised
              THEN [ op |-> op, requests |-> r.requests, raised |-> TRUE, result |-> "none" ]
              ELSE [ op |-> op, requests |-> Append(r.requests, request),
                     raised |-> aresp \in raises_on,
                     result |-> IF aresp = "result" THEN "result" ELSE "none" ]
        /\ UNCHANGED cl_now

\* TuyaScaleAPI.get_scale_records: raises on a status other than 200 and on
\* a body without success
ClientGetScaleRecords ==
    /\ ClientCall("get_scale_records", "history", { "http", "failure" })
    /\ UNCHANGED notClient

\* TuyaScaleAPI.get_analysis_report: returns None on such answers
ClientGetAnalysisReport ==
    /\ ClientCall("get_analysis_report", "analysis", { })
    /\ UNCHANGED notClient

NextClient ==
    \/ ClientTick
    \/ ClientNew
    \/ ClientGetScaleRecords
    \/ ClientGetAnalysisReport

(***************************************************************************)
(* Part 8.  update_data of the standalone downloader                       *)
(***************************************************************************)

\* bounds: the records that the server comes to hold, their create_time
\* (ms), and the page size of a run (100 in the code)
MaxUpdateRecords == 3
MaxCreateTime == 3
UpdatePageSize == 2

\* a record of the server or of the file: analysis_report tells whether it
\* has the key "analysis_report"
DataRecord(id, create_time) ==
    [ id |-> id, create_time |-> create_time, analysis_report |-> FALSE ]

\* start_time is None
NoStartTime == -1

\* datetime.fromtimestamp(create_time / 1000, tz=pytz.UTC): a datetime, in
\* microseconds since the epoch
FromTimestamp(create_time) == create_time * 1000

\* max(data, key=lambda x: x['create_time'])['create_time']
LargestCreateTime(data) ==
    LET times == { data[i].create_time : i \in 1..Len(data) }
    IN CHOOSE t \in times : \A u \in times : u <= t

\* get_last_record_time(data): None for an empty list
GetLastRecordTime(data) ==
    IF data = << >> THEN NoStartTime ELSE FromTimestamp(LargestCreateTime(data))

\* a plausible slip: the millisecond is not added
ContinuationSameTime(last_record_time) == last_record_time

\* last_record_time += timedelta(milliseconds=1), when it is not None
Continuation(last_record_time) ==
    IF last_record_time = NoStartTime THEN NoStartTime ELSE last_record_time + 1000

\* int(start_time.timestamp() * 1000) in get_scale_records: the start_time
\* parameter of the request, absent when start_time is None
StartTimeMs(start_time) ==
    IF start_time = NoStartTime THEN NoStartTime ELSE start_time \div 1000

\* the server lists its records by create_time, oldest or newest first
ServerBefore(x, y, order) ==
    IF x.create_time # y.create_time
    THEN IF order = "asc" THEN x.create_time < y.create_time
         ELSE x.create_time > y.create_time
    ELSE x.id < y.id

RECURSIVE Listed(_, _)
Listed(records, order) ==
    IF records = {} THEN << >>
    ELSE LET first == CHOOSE x \in records :
                        \A y \in records \ {x} : ServerBefore(x, y, order)
         IN <<first>> \o Listed(records \ {first}, order)

\* a server that honours start_time: the records with create_time >=
\* start_time, all of them when the request has no start_time
Matching(records, start_ms) ==
    { x \in records : start_ms = NoStartTime \/ x.create_time >= start_ms }

\* its answer to the request for page page_no of size s
ServerPage(records, order, start_ms, page_no, s) ==
    LET listed == Listed(Matching(records, start_ms), order)
    IN PageAnswer("page",
                  SubSeq(listed, Min((page_no - 1) * s + 1, Len(listed) + 1),
                                 Min(page_no * s, Len(listed))),
                  Len(listed))

\* a stable sort by create_time: the first of the least records, then the
\* rest
RECURSIVE StableSort(_)
StableSort(data) ==
    IF data = << >> THEN << >>
    ELSE LET least == CHOOSE i \in 1..Len(data) :
                        /\ \A j \in 1..Len(data) : data[i].create_time <= data[j].create_time
                        /\ \A j \in 1..(i - 1) : data[j].create_time # data[i].create_time
         IN <<data[least]>>
            \o StableSort(SubSeq(data, 1, least - 1) \o SubSeq(data, least + 1, Len(data)))

\* a plausible slip: the combined data is saved as it is
Unsorted(data) == data

\* sorted(all_data, key=lambda x: x['create_time'])
SortedByCreateTime(data) == StableSort(data)

\* enrich_with_analysis_reports: a record that has no report gets one when
\* its data is sufficient and the analysis call returns one; got is the set
\* of positions where that happens
Enriched(data, got) ==
    [ i \in 1..Len(data) |->
        IF i \in got THEN [ data[i] EXCEPT !.analysis_report = TRUE ] ELSE data[i] ]

\*   pc            : "idle", "loop" (in get_all_scale_data_history) or
\*                   "fetched" (new_data is there)
\*   existing_data : the file as loaded
\*   start_time    : last_record_time after line 344
\*   lv            : the locals of get_all_scale_data_history
\*   requests      : the page requests of this run
\*   wrote         : save_data was called in the last run
\*   aborted       : a page request of this run raised
\*   missed        : the ids of the records that earlier runs left on the
\*                   server when they saved a part of what was new, their
\*                   pagination having stopped on an exception
UpIdle ==
    [ pc |-> "idle", existing_data |-> << >>, start_time |-> NoStartTime,
      lv |-> IdleLocals, requests |-> << >>, wrote |-> FALSE, aborted |-> FALSE,
      missed |-> {} ]

InitUpdate ==
    /\ data_file = << >>
    /\ srv_records = {}
    /\ srv_order = "asc"
    /\ up = UpIdle

\* the server is one that lists the newest record first
ServerNewestFirst ==
    /\ up.pc = "idle"
    /\ srv_records = {}
    /\ data_file = << >>
    /\ srv_order = "asc"
    /\ srv_order' = "desc"
    /\ UNCHANGED <<data_file, srv_records, up>>
    /\ UNCHANGED notUpdate

\* between two runs, the scale uploads a measurement
ServerArrive ==
    /\ up.pc = "idle"
    /\ Cardinality(srv_records) < MaxUpdateRecords
    /\ \E t \in 1..MaxCreateTime :
          srv_records' = srv_records \cup { DataRecord(Cardinality(srv_records) + 1, t) }
    /\ UNCHANGED <<data_file, srv_order, up>>
    /\ UNCHANGED notUpdate

\* update_data() up to the call of get_all_scale_data_history
UpdateStart ==
    /\ up.pc = "idle"
    /\ up' = [ UpIdle EXCEPT !.pc = "loop", !.existing_data = data_file,
                              !.start_time = Continuation(GetLastRecordTime(data_file)),
                              !.lv = [ IdleLocals EXCEPT !.pc = "loop" ],
                              !.missed = up.missed ]
    /\ UNCHANGED <<data_file, srv_records, srv_order>>
    /\ UNCHANGED notUpdate

\* one pass of the loop of get_all_scale_data_history: the page request
\* raises (a token failure, an HTTP or API error) or is answered
UpdateFetch ==
    /\ up.pc = "loop"
    /\ \E answer \in { PageAnswer("exception", << >>, AbsentTotal),
                        ServerPage(srv_records, srv_order, StartTimeMs(up.start_time),
                                   up.lv.page_no, UpdatePageSize) } :
        LET lv == Pass(up.lv, answer, UpdatePageSize) IN
        up' = [ up EXCEPT !.lv = lv,
                          !.pc = IF lv.pc = "loop" THEN "loop" ELSE "fetched",
                          !.aborted = up.aborted \/ answer.kind = "exception",
                          !.requests = Append(up.requests,
                                [ page_no |-> up.lv.page_no,
                                  start_time |-> StartTimeMs(up.start_time) ]) ]
    /\ UNCHANGED <<data_file, srv_records, srv_order>>
    /\ UNCHANGED notUpdate

\* the ids of the records that the server holds and data does not
LeftOnServer(data) ==
    { x.id : x \in { y \in srv_records : \A i \in 1..Len(data) : data[i].id # y.id } }

\* the rest of update_data: when there is new data, it is combined with the
\* existing data, sorted, enriched and saved
UpdateSave ==
    /\ up.pc = "fetched"
    /\ LET new_data == up.lv.all_data
           all_data == SortedByCreateTime(up.existing_data \o new_data)
       IN IF new_data = << >>
          THEN /\ up' = [ up EXCEPT !.pc = "idle" ]
               /\ UNCHANGED data_file
          ELSE /\ \E got \in SUBSET { i \in 1..Len(all_data) : ~all_data[i].analysis_report } :
                    data_file' = Enriched(all_data, got)
               /\ up' = [ up EXCEPT !.pc = "idle", !.wrote = TRUE,
                                    !.missed = IF up.aborted
                                               THEN up.missed \cup LeftOnServer(all_data)
                                               ELSE up.missed ]
    /\ UNCHANGED <<srv_records, srv_order>>
    /\ UNCHANGED notUpdate

NextUpdate ==
    \/ ServerNewestFirst
    \/ ServerArrive
    \/ UpdateStart
    \/ UpdateFetch
    \/ UpdateSave

(***************************************************************************)
(* Part 9.  enrich_with_analysis_reports of the standalone downloader      *)
(***************************************************************************)

\* bound: the number of records that one call is given
MaxEnrichRecords == 2

\* The values of the keys that the loop reads.  For wegith and height, None
\* stands for a key that is absent or null; body_r is read with a default,
\* so for it AbsentKey is the absent key and None is null.  NumberZero is the
\* JSON number 0, the other values are JSON strings.
AbsentKey == "<absent>"
NumberZero == "<0>"

\* a record as the loop sees it; analysis_report tells whether the record
\* has the key "analysis_report"
EnrichRecord(wegith, height, body_r, analysis_report) ==
    [ wegith |-> wegith, height |-> height, body_r |-> body_r,
      analysis_report |-> analysis_report ]

\* Python's "not v" for these values
Not(v) == v \in { None, "", NumberZero }

\* record.get('body_r', '0')
ResistanceOf(record) == IF record.body_r = AbsentKey THEN "0" ELSE record.body_r

\* line 298: not weight or not height or resistance == '0'
InsufficientData(record) ==
    \/ Not(record.wegith)
    \/ Not(record.height)
    \/ ResistanceOf(record) = "0"

\* float(height) or float(weight) raises: a string that is not a number
\* (None and "" never get there, line 298 skips them)
FloatOfRaises(record) == record.height = "abc" \/ record.wegith = "abc"

\* how api.get_analysis_report ends once its arguments are evaluated
\*   token_failed : it has no token and get_access_token() raises
\*   raised       : the POST or the reading of its response raises
\*   none         : a status other than 200, or success false: None
\*   empty        : success with an empty result
\*   report       : success with a report
AnalysisOutcomes == { "token_failed", "raised", "none", "empty", "report" }

\* the records given to a call: complete ones with and without a report,
\* and ones that differ from a complete one in one key
EnrichElems ==
    { EnrichRecord("65", "170", "550", r) : r \in BOOLEAN }
    \cup { EnrichRecord(w, "170", "550", FALSE) : w \in { None, "", NumberZero, "0", "abc" } }
    \cup { EnrichRecord("65", h, "550", FALSE) : h \in { None, NumberZero, "0" } }
    \cup { EnrichRecord("65", "170", b, FALSE) : b \in { AbsentKey, None, "", "0" } }

\* what the loop did for one record
\*   skipped : one of the two continue statements was taken
\*   posted  : the analysis-report POST was sent
\*   failed  : the except clause of line 321 was entered
EnrichPass(skipped, posted, failed) ==
    [ skipped |-> skipped, posted |-> posted, failed |-> failed ]

\*   pc      : "idle", "loop" (about to process records[i]) or "done"
\*   given   : the records as they were passed
\*   records : the records, with the reports attached so far
\*   log     : what the loop did for the records processed, in order
\*   raised  : the call raised to its caller
EnIdle ==
    [ pc |-> "idle", given |-> << >>, records |-> << >>, i |-> 0, log |-> << >>,
      raised |-> FALSE ]

InitEnrich == en = EnIdle

\* enrich_with_analysis_reports(api, device_id, records, birth_date) is
\* called
EnrichStart ==
    /\ en.pc = "idle"
    /\ \E given \in ListsUpTo(EnrichElems, MaxEnrichRecords) :
        en' = [ EnIdle EXCEPT !.pc = IF given = << >> THEN "done" ELSE "loop",
                              !.given = given, !.records = given,
                              !.i = IF given = << >> THEN 0 ELSE 1 ]
    /\ UNCHANGED notEnrich

\* one pass of the loop (lines 288-322): a record that has a report or
\* lacks data is skipped; otherwise the report is requested and attached
\* when it is truthy, and every exception is logged
EnrichOne ==
    /\ en.pc = "loop"
    /\ \E how \in AnalysisOutcomes :
        LET record == en.records[en.i]
            pass == IF record.analysis_report \/ InsufficientData(record)
                    THEN EnrichPass(TRUE, FALSE, FALSE)
                    ELSE IF FloatOfRaises(record) \/ how = "token_failed"
                    THEN EnrichPass(FALSE, FALSE, TRUE)
                    ELSE EnrichPass(FALSE, TRUE, how = "raised")
            attached == pass.posted /\ how = "report"
        IN en' = [ en EXCEPT
                     !.records[en.i].analysis_report = record.analysis_report \/ attached,
                     !.log = Append(en.log, pass),
                     !.pc = IF en.i = Len(en.records) THEN "done" ELSE "loop",
                     !.i = IF en.i = Len(en.records) THEN en.i ELSE en.i + 1 ]
    /\ UNCHANGED notEnrich

\* the caller is done with the records returned
EnrichReturn ==
    /\ en.pc = "done"
    /\ en' = EnIdle
    /\ UNCHANGED notEnrich

NextEnrich ==
    \/ EnrichStart
    \/ EnrichOne
    \/ EnrichReturn

(***************************************************************************)
(* Part 10.  The requests that TuyaSmartScaleAPI builds and signs          *)
(***************************************************************************)

\* bounds: time.time() in milliseconds, and the length of a resistance
MaxSignTime == 3
MaxResistanceLen == 2

\* the paths of the four endpoints, for the device id "d":
\* "/v1.0/token?grant_type=1", "/v1.0/devices/d", "/v1.0/scales/d/datas/history"
\* and "/v1.0/scales/d/analysis-reports"
PathOf(kind) ==
    CASE kind = "token" -> <<47, 118, 49, 46, 48, 47, 116, 111, 107, 101, 110, 63, 103,
                             114, 97, 110, 116, 95, 116, 121, 112, 101, 61, 49>>
      [] kind = "device" -> <<47, 118, 49, 46, 48, 47, 100, 101, 118, 105, 99, 101, 115,
                              47, 100>>
      [] kind = "history" -> <<47, 118, 49, 46, 48, 47, 115, 99, 97, 108, 101, 115, 47,
                               100, 47, 100, 97, 116, 97, 115, 47, 104, 105, 115, 116,
                               111, 114, 121>>
      [] kind = "analysis" -> <<47, 118, 49, 46, 48, 47, 115, 99, 97, 108, 101, 115, 47,
                                100, 47, 97, 110, 97, 108, 121, 115, 105, 115, 45, 114,
                                101, 112, 111, 114, 116, 115>>

\* params of get_scale_records (lines 121-123), with the keys "page_size",
\* "page_no" and "start_time": start_time is stored only when it is truthy
\* (not None, not 0)
HistoryParams(limit, start_time) ==
    LET page_size_key == <<112, 97, 103, 101, 95, 115, 105, 122, 101>>
        page_no_key == <<112, 97, 103, 101, 95, 110, 111>>
        start_time_key == <<115, 116, 97, 114, 116, 95, 116, 105, 109, 101>>
    IN IF start_time # 0
       THEN << <<page_size_key, limit>>, <<page_no_key, 1>>,
               <<start_time_key, start_time>> >>
       ELSE << <<page_size_key, limit>>, <<page_no_key, 1>> >>

\* \uXXXX, with the four hexadecimal digits of c
UnicodeEscape(c) ==
    LET HexDigit(d) == IF d < 10 THEN 48 + d ELSE 87 + d
    IN <<92, 117, HexDigit(c \div 4096), HexDigit((c \div 256) % 16),
         HexDigit((c \div 16) % 16), HexDigit(c % 16)>>

\* a plausible slip: json.dumps(..., ensure_ascii=False) leaves the
\* characters above 127 as they are
RECURSIVE JsonEscape(_)
JsonEscapeKeepsUnicode(chars) ==
    IF chars = << >> THEN << >>
    ELSE (IF Head(chars) \in {34, 92} THEN <<92, Head(chars)>> ELSE <<Head(chars)>>)
         \o JsonEscape(Tail(chars))

\* json.dumps of the characters of a string: the quote and the backslash
\* get a backslash, a character above 127 becomes \uXXXX
JsonEscape(chars) ==
    IF chars = << >> THEN << >>
    ELSE (IF Head(chars) \in {34, 92} THEN <<92, Head(chars)>>
          ELSE IF Head(chars) > 127 THEN UnicodeEscape(Head(chars))
          ELSE <<Head(chars)>>)
         \o JsonEscape(Tail(chars))

\* body_json = json.dumps(body_data, separators=(',', ':')), lines 265-273:
\* of its members the model keeps {"resistance":"..."}; the other ones are
\* numbers, which json.dumps writes in ASCII
BodyJson(resistance) ==
    <<123, 34, 114, 101, 115, 105, 115, 116, 97, 110, 99, 101, 34, 58, 34>> \o
      JsonEscape(resistance) \o <<34, 125>>

\* str.encode('utf-8') for characters below 2048
RECURSIVE EncodeUtf8(_)
EncodeUtf8(chars) ==
    IF chars = << >> THEN << >>
    ELSE (IF Head(chars) < 128 THEN <<Head(chars)>>
          ELSE <<192 + (Head(chars) \div 64), 128 + (Head(chars) % 64)>>)
         \o EncodeUtf8(Tail(chars))

\* the bytes that requests.post(url, data=body_json) puts on the wire for a
\* str: the HTTP stack encodes it as latin-1 or as utf-8, depending on its
\* version; the characters of the model are below 256
WireBytes(chars, encoding) ==
    IF encoding = "utf-8" THEN EncodeUtf8(chars) ELSE chars

\* body_sha256 (lines 36-39): the digest is modelled by the bytes that are
\* hashed, the empty bytes when body is falsy
BodySha256(body) == EncodeUtf8(body)

\* _sign_request(method, path, access_token, params, body) called when the
\* clock shows ms: the segments of the message that is signed, and the t
\* = str(int(time.time() * 1000)) and the canonical_path that it returns
SignRequestAt(method, path, token, params, body, ms) ==
    [ message |-> [ token |-> MessageToken(token), t |-> StrOfNat(ms),
                    method |-> method, body_sha256 |-> BodySha256(body),
                    canonical_path |-> CanonicalPath(path, params) ],
      t |-> StrOfNat(ms),
      canonical_path |-> CanonicalPath(path, params) ]

\* the request that goes out: the URL after the endpoint, the headers
\* access_token (None: there is no such header; requests drops a header
\* whose value is None) and t, and the bytes of the body
SentRequest(method, url, header_token, t, data) ==
    [ method |-> method, url |-> url, access_token |-> header_token, t |-> t,
      data |-> data ]

\*   kind   : "none" before the first request
\*   at     : time.time() in ms when _sign_request was called for it
\*   signed : the message that was signed
\*   sent   : the request that was sent
NotBuilt ==
    [ kind |-> "none", at |-> 0,
      signed |-> SignRequestAt("GET", << >>, None, << >>, << >>, 0).message,
      sent |-> SentRequest("GET", << >>, None, << >>, << >>) ]

InitBuilt == built = NotBuilt

\* the tokens that get_access_token() can return
BuiltTokens == { None, "", CannedToken }

\* get_access_token, lines 67-80: the URL is built from path, not from the
\* canonical path
BuildTokenRequest ==
    /\ built.kind = "none"
    /\ \E ms \in 0..MaxSignTime :
           LET path == PathOf("token")
               sg == SignRequestAt("GET", path, None, << >>, << >>, ms)
           IN /\ built' = [ kind |-> "token", at |-> ms, signed |-> sg.message,
                            sent |-> SentRequest("GET", path, None, sg.t, << >>) ]
              /\ UNCHANGED notBuilt

\* get_device_info, lines 99-110
BuildDeviceRequest ==
    /\ built.kind = "none"
    /\ \E ms \in 0..MaxSignTime, token \in BuiltTokens :
           LET sg == SignRequestAt("GET", PathOf("device"), token, << >>, << >>, ms)
           IN /\ built' = [ kind |-> "device", at |-> ms, signed |-> sg.message,
                            sent |-> SentRequest("GET", sg.canonical_path, token, sg.t, << >>) ]
              /\ UNCHANGED notBuilt

\* get_scale_records, lines 121-138
BuildHistoryRequest ==
    /\ built.kind = "none"
    /\ \E ms \in 0..MaxSignTime, token \in BuiltTokens, limit \in {10, 100},
          start_time \in {0, 5} :
           LET sg == SignRequestAt("GET", PathOf("history"), token,
                                   HistoryParams(limit, start_time), << >>, ms)
           IN /\ built' = [ kind |-> "history", at |-> ms, signed |-> sg.message,
                            sent |-> SentRequest("GET", sg.canonical_path, token, sg.t, << >>) ]
              /\ UNCHANGED notBuilt

\* get_analysis_report, lines 262-294; the resistance is made of the
\* characters "5", the quote and e-acute
BuildAnalysisRequest ==
    /\ built.kind = "none"
    /\ \E ms \in 0..MaxSignTime, token \in BuiltTokens,
          resistance \in ListsUpTo({53, 34, 233}, MaxResistanceLen),
          encoding \in {"latin-1", "utf-8"} :
           LET body_json == BodyJson(resistance)
               sg == SignRequestAt("POST", PathOf("analysis"), token, << >>, body_json, ms)
           IN /\ built' = [ kind |-> "analysis", at |-> ms, signed |-> sg.message,
                            sent |-> SentRequest("POST", sg.canonical_path, token, sg.t,
                                                 WireBytes(body_json, encoding)) ]
              /\ UNCHANGED notBuilt

\* the request has gone out; the next one is built from scratch
BuiltTakeResult ==
    /\ built.kind # "none"
    /\ built' = NotBuilt
    /\ UNCHANGED notBuilt

NextBuilt ==
    \/ BuildTokenRequest
    \/ BuildDeviceRequest
    \/ BuildHistoryRequest
    \/ BuildAnalysisRequest
    \/ BuiltTakeResult

(***************************************************************************)
(* Part 11. Two callers of get_access_token on one TuyaSmartScaleAPI       *)
(***************************************************************************)

\* bound of the two-caller model: how far the clock runs during one round
MaxRaceTicks == 1

\* the coordinator hands get_latest_data and get_device_identification to
\* executor threads, so two calls can be inside get_access_token at once
Callers == {1, 2}
Other(c) == 3 - c

\* the answers to the token request of this part: a failure and two tokens
\* that differ in token and lifetime and outlive the round
RaceResponses ==
    { r \in TokenResponses :
        \/ r.status = 500
        \/ r.body = "result" /\ r.access_token = CannedToken /\ r.expire_time = UsualExpireTime
        \/ r.body = "result" /\ r.access_token = "tok456" /\ r.expire_time = 63 }

\* the cache at the start of a round: as constructed, or a token that has
\* reached the safety margin
RaceCaches ==
    { [ access_token |-> None, token_expires |-> 0 ],
      [ access_token |-> CannedToken, token_expires |-> SafetyMargin ] }

\* access_token, token_expires: the attributes of the client; now: the clock;
\* pc, data, ret: per caller, the position in get_access_token, the parsed
\* token response and the value returned; requests: the token requests sent
\* in this round; token_from, expires_from: the caller whose response each
\* attribute was last stored from (0: none in this round); overlapped: a
\* call was entered while the other call was inside get_access_token
RaceRound(cache) ==
    [ access_token |-> cache.access_token, token_expires |-> cache.token_expires,
      now |-> 0,
      pc |-> [ c \in Callers |-> "idle" ],
      data |-> [ c \in Callers |-> NoTokenResponse ],
      ret |-> [ c \in Callers |-> None ],
      requests |-> 0, token_from |-> 0, expires_from |-> 0, overlapped |-> FALSE ]

InitRace ==
    rc = RaceRound([ access_token |-> None, token_expires |-> 0 ])

RaceOver == \A c \in Callers : rc.pc[c] \in {"returned", "raised"}

\* both calls are over: the next round starts from an empty or expired cache
RaceBegin ==
    /\ RaceOver
    /\ \E cache \in RaceCaches : rc' = RaceRound(cache)
    /\ UNCHANGED notRace

\* the clock advances
RaceTick ==
    /\ ~RaceOver
    /\ rc.now < MaxRaceTicks
    /\ rc' = [ rc EXCEPT !.now = rc.now + 1 ]
    /\ UNCHANGED notRace

\* caller c enters get_access_token and tests the cache: a valid cache is
\* returned at once, otherwise the token request comes next
RaceEnter(c) ==
    /\ rc.pc[c] = "idle"
    /\ LET inside == rc.pc[Other(c)] \notin {"idle", "returned", "raised"}
           valid == CacheValid(rc.access_token, rc.token_expires, rc.now)
       IN rc' = [ rc EXCEPT !.pc[c] = IF valid THEN "returned" ELSE "request",
                            !.ret[c] = IF valid THEN rc.access_token ELSE None,
                            !.overlapped = rc.overlapped \/ inside ]
    /\ UNCHANGED notRace

\* caller c sends the token request and parses the answer: the checks of the
\* status, the JSON body and the "result" key raise
RaceRequest(c) ==
    /\ rc.pc[c] = "request"
    /\ \E resp \in RaceResponses :
          rc' = [ rc EXCEPT !.requests = rc.requests + 1,
                            !.pc[c] = IF TokenResponseRaises(resp) THEN "raised"
                                      ELSE "store_token",
                            !.data[c] = resp ]
    /\ UNCHANGED notRace

\* self.access_token = data["result"].get("access_token")
RaceStoreToken(c) ==
    /\ rc.pc[c] = "store_token"
    /\ rc' = [ rc EXCEPT !.access_token = rc.data[c].access_token,
                         !.token_from = c,
                         !.pc[c] = "store_expires" ]
    /\ UNCHANGED notRace

\* self.token_expires = time.time() + data["result"].get("expire_time", 0)
RaceStoreExpires(c) ==
    /\ rc.pc[c] = "store_expires"
    /\ rc' = [ rc EXCEPT !.token_expires = NewExpiry(rc.now, rc.data[c].expire_time),
                         !.expires_from = c,
                         !.pc[c] = "return" ]
    /\ UNCHANGED notRace

\* return self.access_token
RaceReturn(c) ==
    /\ rc.pc[c] = "return"
    /\ rc' = [ rc EXCEPT !.ret[c] = rc.access_token, !.pc[c] = "returned" ]
    /\ UNCHANGED notRace

NextRace ==
    \/ RaceBegin
    \/ RaceTick
    \/ \E c \in Callers : RaceEnter(c)
    \/ \E c \in Callers : RaceRequest(c)
    \/ \E c \in Callers : RaceStoreToken(c)
    \/ \E c \in Callers : RaceStoreExpires(c)
    \/ \E c \in Callers : RaceReturn(c)

InitAll ==
    /\ InitCanon /\ InitToken /\ InitPage /\ InitOpen /\ InitUsers /\ InitLatest
    /\ InitClient /\ InitUpdate /\ InitEnrich /\ InitBuilt /\ InitRace

SpecCanon == InitAll /\ [][NextCanon]_vars

SpecToken == InitAll /\ [][NextToken]_vars

SpecPage == InitAll /\ [][NextPage]_vars

SpecOpen == InitAll /\ [][NextOpen]_vars

SpecUsers == InitAll /\ [][NextUsers]_vars

SpecLatest == InitAll /\ [][NextLatest]_vars

SpecClient == InitAll /\ [][NextClient]_vars

SpecUpdate == InitAll /\ [][NextUpdate]_vars

SpecEnrich == InitAll /\ [][NextEnrich]_vars

SpecBuilt == InitAll /\ [][NextBuilt]_vars

SpecRace == InitAll /\ [][NextRace]_vars

(***************************************************************************)
(* Properties of the token cache (SpecToken)                               *)
(***************************************************************************)

\* the token requests among the requests of the last operation
TokenRequests == SelectSeq(last.requests, LAMBDA r : r.kind = "token")

\* the cache, as the operation found it, held a token it could still use
EntryCacheUsable ==
    /\ last.pre_token \notin {None, ""}
    /\ last.entry_now < last.pre_expires - 60

\* the operation received a token response, and it was a 200 with a result object
GotTokenResult ==
    /\ last.op # "none"
    /\ Len(TokenRequests) = 1
    /\ last.token_resp.status = 200
    /\ last.token_resp.body = "result"

\* C1: a get_access_token() call entered before expiry - 60 with a cached
\* token returns that token and sends no HTTP request; a call entered at or
\* after expiry - 60, or with no token cached, sends exactly one token request
\* (and nothing else).
C1_CacheHitOrOneRequest ==
    last.op = "get_access_token" =>
        IF EntryCacheUsable
        THEN /\ last.requests = << >>
             /\ ~last.raised
             /\ last.token_ret = last.pre_token
        ELSE /\ Len(last.requests) = 1
             /\ last.requests[1].kind = "token"

\* a call one second before the boundary is answered from the cache
C1_Witness ==
    /\ last.op = "get_access_token"
    /\ last.pre_token = CannedToken
    /\ last.entry_now > 0
    /\ last.entry_now = last.pre_expires - 61
    /\ last.requests = << >>
    /\ last.token_ret = CannedToken

\* C2: every history, device-info and analysis-report request carries the
\* token that get_access_token() returned inside the same operation, and that
\* token comes from the cache only when the operation was entered before
\* expiry - 60; otherwise a token request precedes the request and the token
\* on the request is the one of its response.
C2_NoExpiredTokenUsed ==
    /\ last.op # "none" /\ ~last.token_raised /\ TokenRequests = << >> =>
            /\ EntryCacheUsable
            /\ last.token_ret = last.pre_token
    /\ last.op \in {"get_scale_records", "get_device_info", "get_analysis_report"}
         /\ ~last.token_raised =>
            LET api == last.requests[Len(last.requests)] IN
            /\ api.kind # "token"
            /\ api.access_token = last.token_ret
            /\ api.msg_token = (IF last.token_ret \in {None, ""} THEN "" ELSE last.token_ret)
            /\ ~EntryCacheUsable =>
                  /\ Len(last.requests) = 2
                  /\ last.requests[1].kind = "token"
                  /\ api.access_token = last.token_resp.access_token

\* a history request entered exactly at expiry - 60 with a token still cached
\* goes out with the token of a fresh token response
C2_Witness ==
    /\ last.op = "get_scale_records"
    /\ last.pre_token = CannedToken
    /\ last.entry_now = last.pre_expires - 60
    /\ Len(last.requests) = 2
    /\ last.requests[2].kind = "history"
    /\ last.requests[2].access_token = "tok456"

\* C3: on a 200 token response with a result object get_access_token()
\* returns result.access_token, caches it and sets the expiry to the time of
\* the response plus result.expire_time; after the canned response (tok123,
\* 7200) it returns tok123, and a call that follows immediately returns tok123
\* again without an HTTP request.
C3_TokenResponseCached ==
    GotTokenResult =>
        /\ ~last.token_raised
        /\ last.token_ret = last.token_resp.access_token
        /\ access_token = last.token_resp.access_token
        /\ last.token_resp.expire_time # AbsentTime =>
              token_expires = last.token_resp_at + last.token_resp.expire_time
        /\ last.token_resp.access_token = "tok123"
             /\ last.token_resp.expire_time = 7200 =>
              /\ last.token_ret = "tok123"
              /\ \A resp \in TokenResponses :
                    LET again == GetAccessToken(access_token, token_expires, now, resp, 0) IN
                    /\ again.requests = << >>
                    /\ ~again.raised
                    /\ again.ret = "tok123"

\* the canned response replaced another token after some time had passed
C3_Witness ==
    /\ last.op = "get_access_token"
    /\ GotTokenResult
    /\ last.pre_token = "tok456"
    /\ last.token_resp_at > 1
    /\ last.token_resp.access_token = "tok123"
    /\ last.token_resp.expire_time = 7200
    /\ last.token_ret = "tok123"

\* C4: when the token response is not a 200, is not JSON or has no result
\* object, get_access_token() raises after exactly one HTTP request and no
\* token is returned.  The operations that call it propagate the error,
\* except validate_credentials, which catches it.
C4_TokenFailureRaisesOnce ==
    /\ last.op # "none"
    /\ Len(TokenRequests) >= 1
    /\ \/ last.token_resp.status # 200
       \/ last.token_resp.body \in {"notjson", "list", "noresult", "resultnull"}
    => /\ last.token_raised
       /\ last.raised \/ last.op = "validate_credentials"
       /\ last.token_ret = None
       /\ Len(last.requests) = 1
       /\ last.requests[1].kind = "token"

\* a 200 body without "result" made get_access_token() raise
C4_Witness ==
    /\ last.op = "get_access_token"
    /\ last.token_resp.status = 200
    /\ last.token_resp.body = "noresult"
    /\ last.raised
    /\ Len(last.requests) = 1

Returned == pg.pc \in {"done", "raised"}

\* the records of the answers to the first k page requests, in order
RECURSIVE ServedUpTo(_)
ServedUpTo(k) ==
    IF k = 0 THEN << >> ELSE ServedUpTo(k - 1) \o page_log[k].answer.records

\* the request for page i failed: it raised, or its result had no records list
PageFailed(i) == page_log[i].answer.kind # "page"

\* page i came back with fewer records than page_size
PageShort(i) ==
    /\ page_log[i].answer.kind = "page"
    /\ Len(page_log[i].answer.records) < page_size

\* with page i the running record count reached the total the server reported
TotalReached(i) ==
    /\ page_log[i].answer.kind = "page"
    /\ page_log[i].answer.total >= 0
    /\ Len(ServedUpTo(i)) >= page_log[i].answer.total

StopPage(i) == PageFailed(i) \/ PageShort(i) \/ TotalReached(i)

\* pages 1, 2, 3, ... were requested in this order, each once
PagesInOrder == \A i \in 1..Len(page_log) : page_log[i].page_no = i

\* C8: get_all_scale_data_history requests pages 1, 2, 3, ... in order, each
\* once, and the last page it requests is the first one that is short, or
\* reaches the server-reported total, or failed: no page is requested after
\* such a page, and the function does not stop at a page of another kind; a
\* short first page yields its records in exactly one request.
C8_StopsAtFirstStopPage ==
    /\ PagesInOrder
    /\ \A i \in 1..Len(page_log) : StopPage(i) => i = Len(page_log)
    /\ Returned => page_log # << >> /\ StopPage(Len(page_log))
    /\ page_log # << >> /\ PageShort(1) =>
          /\ pg.pc = "done"
          /\ Len(page_log) = 1
          /\ pg.all_data = page_log[1].answer.records

\* C9: against a server that holds n records, reports total = n and serves
\* consecutive pages of page_size, get_all_scale_data_history returns records
\* 1..n, each once and in the server's order, with exactly
\* max(1, ceil(n / page_size)) page requests, and while it runs it holds a
\* prefix of them.
C9_HonestServerAllRecords ==
    server.honest /\ pg.pc # "idle" =>
        /\ pg.pc # "raised"
        /\ PagesInOrder
        /\ pg.all_data = Range(1, Len(pg.all_data))
        /\ Len(pg.all_data) <= server.n
        /\ pg.pc = "done" =>
              /\ pg.all_data = Range(1, server.n)
              /\ Len(page_log) =
                    (IF server.n = 0 THEN 1 ELSE (server.n + page_size - 1) \div page_size)

\* a record count that is an exact multiple of the page size, on two pages
C9_Witness ==
    /\ server.honest
    /\ server.n = 4
    /\ page_size = 2
    /\ pg.pc = "done"
    /\ Len(page_log) = 2
    /\ pg.all_data = <<1, 2, 3, 4>>

\* C10: when the request for page k fails, get_all_scale_data_history does
\* not raise and does not ask again: page k is the last page requested, it
\* was requested once, and the function returns the records of pages
\* 1..k-1 in order.
C10_FailedPageEndsWithPartialData ==
    \A k \in 1..Len(page_log) :
        PageFailed(k) =>
            /\ k = Len(page_log)
            /\ PagesInOrder
            /\ pg.pc = "done"
            /\ pg.all_data = ServedUpTo(k - 1)

\* the second page raised after a full first page
C10_Witness ==
    /\ Len(page_log) = 2
    /\ page_log[2].answer.kind = "exception"
    /\ page_size = 2
    /\ pg.pc = "done"
    /\ pg.all_data = <<1, 2>>

\* the total every page of the log reports is t (AbsentTotal: no page has the
\* key "total")
SameTotal(t) ==
    \A i \in 1..Len(page_log) :
        page_log[i].answer.kind = "page" => page_log[i].answer.total = t

\* max(1, ceil(t / page_size)); 1 when no page reports a total
RequestLimit(t) ==
    IF t <= 0 THEN 1 ELSE (t + page_size - 1) \div page_size

\* C28: get_all_scale_data_history terminates for every page_size >= 1 and
\* every server that reports the same total on every page, whatever the
\* pages hold: it issues at most max(1, ceil(total / page_size)) page
\* requests, and with the last of them the loop has ended.
C28_BoundedPageRequests ==
    \A t \in (0..MaxTotal) \cup {AbsentTotal} :
        SameTotal(t) =>
            /\ Len(page_log) <= RequestLimit(t)
            /\ Len(page_log) = RequestLimit(t) => pg.pc # "loop"

\* four records announced on every page, served in two full pages of two
C28_Witness ==
    /\ page_size = 2
    /\ ~server.honest
    /\ Len(page_log) = 2
    /\ SameTotal(4)
    /\ Len(page_log[1].answer.records) = 2
    /\ Len(page_log[2].answer.records) = 3
    /\ pg.pc = "done"

(***************************************************************************)
(* Properties of the canonical path (SpecCanon)                            *)
(***************************************************************************)

ItemsOf(params) == { params[i] : i \in 1..Len(params) }

\* the dicts with the items of params, in every insertion order
Reorderings(params) ==
    { q \in [ 1..Len(params) -> ItemsOf(params) ] : ItemsOf(q) = ItemsOf(params) }

\* the key=value pairs of a set of items joined by "&" in ascending key order
RECURSIVE AscendingQuery(_)
AscendingQuery(items) ==
    IF items = {} THEN << >>
    ELSE LET first == CHOOSE x \in items : \A y \in items \ {x} : StrLess(x[1], y[1])
             rest == items \ {first}
         IN first[1] \o <<ChEq>> \o StrOfNat(first[2])
            \o (IF rest = {} THEN << >> ELSE <<ChAmp>> \o AscendingQuery(rest))

\* C5: the canonical path of _sign_request is path + "?" + the key=value
\* pairs joined by "&" in ascending key order, whatever the insertion order of
\* the parameters (b=2 then a=1 gives a=1&b=2), and it is the path unchanged
\* when there are no parameters; TuyaOpenAPI._calculate_sign builds the same.
C5_CanonicalPathSorted ==
    sr_call.called =>
        /\ sr_call.params = << >> => sr_call.canonical = sr_call.path
        /\ sr_call.params # << >> =>
              /\ sr_call.canonical =
                    sr_call.path \o <<ChQuery>> \o AscendingQuery(ItemsOf(sr_call.params))
              /\ \A q \in Reorderings(sr_call.params) :
                    CanonicalPath(sr_call.path, q) = sr_call.canonical
        /\ sr_call.params = << <<<<98>>, 2>>, <<<<97>>, 1>> >> =>
              sr_call.canonical = sr_call.path \o <<63, 97, 61, 49, 38, 98, 61, 50>>
        /\ sr_call.connector = sr_call.canonical

\* the request with b=2 inserted before a=1 was signed with ?a=1&b=2
C5_Witness ==
    /\ sr_call.called
    /\ sr_call.params = << <<<<98>>, 2>>, <<<<97>>, 1>> >>
    /\ sr_call.canonical = sr_call.path \o <<63, 97, 61, 49, 38, 98, 61, 50>>

(***************************************************************************)
(* Properties of the token requests (SpecOpen)                             *)
(***************************************************************************)

\* C6: every token-acquisition request is signed with the message
\* access_id + t + string_to_sign, without an access-token segment, also when
\* the client still holds an old token.
C6_TokenRequestSignedWithoutToken ==
    sent.kind = "token" => sent.msg_token = ""


\* C27: _request terminates for every request made once a token is held: a
\* token judged expired costs a bounded number of refresh and token requests
\* and then the original request is sent; the calls _request ->
\* _refresh_token -> _request and _get_token -> _request never nest without
\* bound, so no call ends in RecursionError.
C27_RequestWithTokenTerminates ==
    token_info.set => outcome # "recursion_error"


\* C23: when get_access_token() finds no usable cached token and its token
\* request fails, the client is left holding no token: an expired token is
\* not kept in the cache.
C23_FailedTokenRequestLeavesNoToken ==
    /\ last.op # "none"
    /\ ~EntryCacheUsable
    /\ last.token_raised
    => ~Truthy(access_token)

(***************************************************************************)
(* Properties of get_device_info and validate_credentials (SpecToken)      *)
(***************************************************************************)

\* C15: get_device_info raises whenever the device response is non-200, is
\* not valid JSON or lacks the result key; such a response is never
\* reported as a successful (empty) device description.
C15_BadDeviceResponseRaises ==
    /\ last.op = "get_device_info"
    /\ ~last.token_raised
    /\ \/ last.api_resp.status # 200
       \/ last.api_resp.body \in { "notjson", "list", "noresult" }
    => last.raised

\* C17: validate_credentials never raises, and returns True exactly when a
\* usable (non-empty) access token was obtained or is validly cached.
C17_ProbeTrueIffUsableToken ==
    last.op = "validate_credentials" =>
        /\ ~last.raised
        /\ last.valid <=> (~last.token_raised /\ Truthy(last.token_ret))

(***************************************************************************)
(* Properties of get_scale_users (SpecUsers)                               *)
(***************************************************************************)

\* the call returned the users of a records list
UsersReturned == su.op = "get_scale_users" /\ ~su.raised /\ su.resp.body = "records"

UserIdsOf(users) == { users[i].user_id : i \in 1..Len(users) }

\* the position of the first record of the page with this user_id
FirstSeen(user_id) ==
    CHOOSE i \in 1..Len(su.resp.records) :
        /\ su.resp.records[i].user_id = user_id
        /\ \A j \in 1..(i - 1) : su.resp.records[j].user_id # user_id

\* no user_id twice, in first-seen order, each with the nickname of its
\* first record
UsersFirstSeen ==
    /\ \A i, j \in 1..Len(su.users) : i # j => su.users[i].user_id # su.users[j].user_id
    /\ \A i, j \in 1..Len(su.users) :
          i < j => FirstSeen(su.users[i].user_id) < FirstSeen(su.users[j].user_id)
    /\ \A i \in 1..Len(su.users) :
          su.users[i].nickname = NicknameOf(su.resp.records[FirstSeen(su.users[i].user_id)])

\* C11 as stated: get_scale_users returns exactly one entry per distinct
\* user_id of the page that is non-empty and not "0", in first-seen order,
\* each with the nickname of the first record seen for that user_id.
C11_OneEntryPerNonEmptyUserId ==
    UsersReturned =>
        /\ UserIdsOf(su.users) =
              { su.resp.records[i].user_id : i \in 1..Len(su.resp.records) }
              \ { None, "", "0" }
        /\ UsersFirstSeen

\* C11 as amended: get_scale_users returns exactly one entry per distinct
\* user_id of the page that is not "0" and not empty once surrounding
\* whitespace is stripped, in first-seen order, each with the nickname of
\* the first record seen for that user_id.
C11_OneEntryPerNonBlankUserId ==
    UsersReturned =>
        /\ UserIdsOf(su.users) =
              { su.resp.records[i].user_id : i \in 1..Len(su.resp.records) }
              \ { None, "", " ", "0" }
        /\ UsersFirstSeen

\* a page in which a user comes back with another nickname after a record
\* with a blank user_id
C11_Witness ==
    /\ UsersReturned
    /\ Len(su.users) = 1
    /\ Len(su.resp.records) = 3
    /\ su.resp.records[2].user_id = " "
    /\ su.resp.records[1].user_id = su.resp.records[3].user_id
    /\ NicknameOf(su.resp.records[1]) # NicknameOf(su.resp.records[3])



(***************************************************************************)
(* Properties of get_latest_data (SpecLatest)                              *)
(***************************************************************************)

\* the entries of the users processed so far
Entries == { ld.log[i] : i \in 1..Len(ld.log) }

\* the gate in the words of the claims: height > 0, weight > 0 and a
\* resistance that is none of None, "0", ""
ValidResistance(rec) == rec.body_r \notin { None, "0", "" }
PassesGate(rec) == rec.height > 0 /\ rec.wegith > 0 /\ ValidResistance(rec)

\* the item of result for a user
ItemOf(user_id) == CHOOSE x \in { ld.result[i] : i \in 1..Len(ld.result) } : x.user_id = user_id
HasItem(user_id) == \E i \in 1..Len(ld.result) : ld.result[i].user_id = user_id

\* C12: for every user whose records were fetched, get_latest_data calls
\* get_analysis_report exactly when the record whose values it would send
\* has height > 0, weight > 0 and a resistance that is none of None, "0",
\* ""; a POST goes out only in such a call, with the values of that record
\* (so never with resistance "0"), and in every such call unless the token
\* request of get_analysis_report fails; a record that fails the gate is
\* stored without a report, and nothing is raised.
C12_PostIffGate ==
    /\ ~ld.raised
    /\ \A e \in Entries :
        /\ e.fetch = "ok" =>
              /\ e.called <=> PassesGate(e.analysis_record)
              /\ ~PassesGate(e.analysis_record) =>
                    /\ e.stored
                    /\ ItemOf(e.user.user_id).analysis_report = NoReport
        /\ e.posted =>
              /\ e.fetch = "ok" /\ e.called
              /\ e.body = BodyData(e.analysis_record)
              /\ e.body.resistance \notin { None, "0", "" }
        /\ e.called /\ ~e.posted => ld.token_failed

\* one user's record with height 170, weight 65, resistance "550" was
\* posted, another user's record with resistance "0" was not
C12_Witness ==
    /\ ld.pc = "done"
    /\ \E e \in Entries :
          e.posted /\ e.body = [ height |-> 170, weight |-> 65, resistance |-> "550" ]
    /\ \E e \in Entries :
          /\ e.fetch = "ok" /\ ~e.called
          /\ e.analysis_record.body_r = "0"
          /\ e.analysis_record.height = 170

\* C13: in every result of get_latest_data, a record carries an
\* analysis_report only if that same record has valid resistance data and
\* the report was computed from that record's own height, weight and
\* resistance.
C13_ReportFromOwnRecord ==
    ld.pc = "done" =>
        \A i \in 1..Len(ld.result) :
            LET item == ld.result[i] IN
            item.analysis_report.kind = "report" =>
                /\ ValidResistance(item.record)
                /\ item.analysis_report.of = BodyData(item.record)

\* an enrichment that failed: float() raised, or get_analysis_report did
EnrichmentFailures == { e \in Entries : e.failed }

\* the report a stored record carries when its own enrichment went as the
\* entry says
OwnReportOk(e) ==
    LET report == ItemOf(e.user.user_id).analysis_report IN
    IF e.posted /\ ~e.failed
    THEN report = EmptyReport \/ report = Report(BodyData(e.analysis_record))
    ELSE report = NoReport

\* C14: when the enrichment of one user fails (a non-200 response or any
\* exception raised while enriching), get_latest_data still goes through
\* all users and returns: the latest record of that user without a report,
\* and for every other user what its own records and its own enrichment
\* give.
C14_EnrichmentFailureSkipsOnlyTheReport ==
    ld.pc = "done" /\ EnrichmentFailures # {} =>
        /\ ~ld.excepted /\ ~ld.raised
        /\ Len(ld.log) = Len(ld.users)
        /\ \A i \in 1..Len(ld.log) : ld.log[i].user = ld.users[i]
        /\ \A e \in Entries :
              /\ e.stored <=> e.fetch = "ok"
              /\ e.stored <=> HasItem(e.user.user_id)
              /\ e.stored =>
                    /\ ItemOf(e.user.user_id).record =
                          [ e.latest_record EXCEPT !.nickname = e.user.nickname ]
                    /\ OwnReportOk(e)
        /\ Len(ld.result) = Cardinality({ i \in 1..Len(ld.log) : ld.log[i].stored })

\* the POST of the first user was answered with an error, the second user
\* got a report
C14_Witness ==
    /\ ld.pc = "done"
    /\ Len(ld.log) = 2
    /\ ld.log[1].posted /\ ld.log[1].failed
    /\ ld.log[2].posted /\ ~ld.log[2].failed
    /\ Len(ld.result) = 2
    /\ ld.result[2].analysis_report.kind = "report"

\* C22: when the analysis-report POST is answered with a status other than
\* 200 or with a body that has no "result" key, the record that
\* get_latest_data returns for the user has no analysis_report entry at all
\* (not even an empty one).  In the log, a POST that was sent and failed
\* is one whose response made get_analysis_report raise (a status other
\* than 200 among them), and the empty report is what AnalysisResult gives
\* for a 200 response without "result".
C22_FailedReportCallLeavesNoReport ==
    \A e \in Entries :
        e.posted
        => /\ HasItem(e.user.user_id)
           /\ e.failed => ItemOf(e.user.user_id).analysis_report.kind = "absent"
           /\ ItemOf(e.user.user_id).analysis_report.kind # "empty"

\* C25: when every HTTP request of a get_latest_data call succeeds, its
\* result has an entry for every user that its get_scale_users call
\* discovered.  The calls left aside are those with a failed token request,
\* a history request that raised or gave no records (an error status, a bad
\* body, a page that is not full and has no record of the user) and a
\* failed enrichment.
C25_EveryDiscoveredUserReturned ==
    (/\ ld.pc = "done"
     /\ ~ld.excepted
     /\ ~ld.token_failed
     /\ \A e \in Entries : e.fetch \in { "ok", "crowded" } /\ ~e.failed)
    => \A i \in 1..Len(ld.users) : HasItem(ld.users[i].user_id)

\* the nickname that get_scale_users discovered for a user
DiscoveredNickname(user_id) ==
    (CHOOSE u \in { ld.users[i] : i \in 1..Len(ld.users) } : u.user_id = user_id).nickname

\* C29: for every entry (key u, record r) of a get_latest_data result, r
\* has user_id u, r is the first record with user_id u of the history page
\* fetched for that user, and its nickname is the one discovered for u.
C29_EntryIsFirstRecordOfUser ==
    \A i \in 1..Len(ld.result) :
        LET u == ld.result[i].user_id
            r == ld.result[i].record
        IN /\ r.user_id = u
           /\ \E e \in Entries :
                 /\ e.user.user_id = u
                 /\ e.fetch = "ok"
                 /\ r = [ e.first_in_page EXCEPT !.nickname = DiscoveredNickname(u) ]
           /\ \A j \in 1..Len(ld.result) : ld.result[j].user_id = u => j = i

\* two users were returned, each with the nickname of the discovery and
\* with a record of their own
C29_Witness ==
    /\ ld.pc = "done"
    /\ Len(ld.result) = 2
    /\ ld.result[1].user_id = "u1" /\ ld.result[1].record.nickname = "Bo"
    /\ ld.result[1].record.body_r = "0"
    /\ ld.result[2].user_id = "u2" /\ ld.result[2].record.nickname = "Cy"

\* C16: a token-request failure during get_latest_data is surfaced to the
\* caller as an error, so that the coordinator's update fails.
C16_TokenFailureFailsUpdate ==
    ld.pc = "done" /\ ld.token_failed => UpdateFailed



(***************************************************************************)
(* Properties of the downloader's client (SpecClient)                      *)
(***************************************************************************)

\* C20: across any sequence of get_scale_records and get_analysis_report
\* calls, no request is sent with a token whose expire_time has elapsed
\* since it was issued.
C20_NoRequestWithElapsedToken ==
    \A i \in 1..Len(cl_last.requests) :
        cl_last.requests[i].kind # "token" => ~cl_last.requests[i].elapsed



(***************************************************************************)
(* Properties of update_data (SpecUpdate)                                  *)
(***************************************************************************)

\* the number of records of data with this id
Copies(data, id) == Cardinality({ i \in 1..Len(data) : data[i].id = id })

\* the run that has just ended called save_data
JustWritten == up.pc = "idle" /\ up.wrote

\* C18: whenever update_data writes the data file, its records are sorted
\* ascending by create_time and every record that was in the file before
\* the run is still in it.
C18_FileSortedAndAppendOnly ==
    JustWritten =>
        /\ \A i, j \in 1..Len(data_file) :
              i < j => data_file[i].create_time <= data_file[j].create_time
        /\ \A i \in 1..Len(up.existing_data) :
              /\ Copies(data_file, up.existing_data[i].id)
                    >= Copies(up.existing_data, up.existing_data[i].id)
              /\ \E j \in 1..Len(data_file) :
                    /\ data_file[j].id = up.existing_data[i].id
                    /\ data_file[j].create_time = up.existing_data[i].create_time

\* a run added two records, listed newest first, to a file that had one
C18_Witness ==
    /\ JustWritten
    /\ srv_order = "desc"
    /\ Len(up.existing_data) = 1
    /\ Len(data_file) = 3
    /\ data_file[2].create_time < data_file[3].create_time

C26_MissedRecordsStoredLater ==
    up.pc = "idle" /\ up.requests # << >> /\ ~up.aborted
    => \A id \in up.missed : Copies(data_file, id) >= 1

MissingOrZero(v) == v \in { None, NumberZero, "0" }

\* C21: for a record whose height or weight is missing or zero, or whose
\* body_r is None, "0" or the empty string (or absent), the loop sends no
\* analysis-report POST, leaves the record without an analysis_report and
\* raises no error.
C21_NoPostWithoutData ==
    \A k \in 1..Len(en.log) :
        (/\ ~en.given[k].analysis_report
         /\ \/ MissingOrZero(en.given[k].wegith)
            \/ MissingOrZero(en.given[k].height)
            \/ en.given[k].body_r \in { AbsentKey, None, "0", "" })
        => /\ ~en.log[k].posted
           /\ ~en.log[k].failed
           /\ ~en.records[k].analysis_report
           /\ ~en.raised

(***************************************************************************)
(* Properties of the requests of TuyaSmartScaleAPI (SpecBuilt)             *)
(***************************************************************************)

\* C24: for every request that TuyaSmartScaleAPI builds, what is sent is
\* what was signed: the header t is the timestamp of the signed message and
\* is taken from the clock for this request; the access_token header, which
\* the token request does not have, is the token of the signed message; the
\* path and query of the URL are the canonical path of the string to sign;
\* and the bytes of the body are the bytes whose SHA-256 was signed.
C24_SentIsSigned ==
    built.kind # "none" =>
        /\ built.sent.t = built.signed.t
        /\ built.sent.t = StrOfNat(built.at)
        /\ built.kind = "token" => built.sent.access_token = None
        /\ built.signed.token =
              (IF built.sent.access_token = None THEN "" ELSE built.sent.access_token)
        /\ built.sent.url = built.signed.canonical_path
        /\ built.sent.method = built.signed.method
        /\ built.sent.data = built.signed.body_sha256

\* an analysis-report request whose resistance has a character above 127
\* went out with a token, its body in ASCII
C24_Witness ==
    /\ built.kind = "analysis"
    /\ built.at > 0
    /\ built.sent.access_token = CannedToken
    /\ built.sent.data = BodyJson(<<53, 233>>)
    /\ \A i \in 1..Len(built.sent.data) : built.sent.data[i] < 128

(***************************************************************************)
(* Properties of two callers on one client (SpecRace)                      *)
(***************************************************************************)

\* C30: when two callers interleave get_access_token on one client while the
\* cache is empty or expired and both calls return, exactly one token
\* request was sent, and the cached token and the cached expiry come from
\* the same token response.
C30_OneRequestOneResponse ==
    /\ rc.overlapped
    /\ \A c \in Callers : rc.pc[c] = "returned"
    => /\ rc.requests = 1
       /\ rc.token_from = rc.expires_from

=============================================================================
